---- MODULE Spec2Model ----
(***************************************************************************)
(* A model of the tsFlow flow engine: StateMachine (state-machine.ts),     *)
(* InMemoryStateStorage (storage.ts) and FlowEngine (flow-engine.ts).      *)
(*                                                                         *)
(* The storage copies a FlowState with the object spread {...state}: the   *)
(* copy is shallow, so a snapshot shares its history, compensations,       *)
(* subFlows and context objects with the stored value.  The model keeps    *)
(* those objects in a heap (arrays, ctxs) and the scalar fields (status,   *)
(* currentState, error, ...) in the stored record, which names its heap    *)
(* objects by reference.                                                   *)
(***************************************************************************)
EXTENDS Integers, Sequences, FiniteSets, TLC

(***************************************************************************)
(* Bounds of the model.                                                    *)
(***************************************************************************)
MaxFlows == 2      \* flow ids the callers and generateUUID draw from (SpecMulti)
MaxComps == 2      \* compensation records on one flow
MaxCalls == 3      \* overlapping calls in SpecOverlap and SpecStarts
MaxMw == 1         \* middlewares registered on an engine
MaxSubs == 1       \* sub-flow references on one flow
MaxHistory == 2    \* history records up to which a storage client saves (SpecClient)

IdNames == <<"f1", "f2", "f3", "f4">>
FlowIds == {IdNames[i] : i \in 1..MaxFlows}
Keys == {"k1"}
NoKey == ""           \* options.idempotencyKey absent (or the falsy "")
NoId == ""            \* options.flowId absent (or the falsy "")
NoRegion == "undefined"
TargetRegions == {NoRegion, "0", "1", "2"}
CompNames == <<"c1", "c2", "c3", "c4">>   \* the i-th action recorded on a flow
Marks == {"d"}

(***************************************************************************)
(* The flow definition (StateMachineConfig).  One state table is shared by *)
(* two engines that differ in initialState: "order" starts in the atomic   *)
(* state draft, "fanout" starts in the parallel state par.                 *)
(***************************************************************************)
Tr(from, event, to, action, maxAttempts) ==
  [from |-> from, event |-> event, to |-> to, guard |-> "none",
   action |-> action, maxAttempts |-> maxAttempts]

Atomic(transitions, onEntry, onExit, validation) ==
  [type |-> "atomic", isFinal |-> FALSE, transitions |-> transitions,
   onEntry |-> onEntry, onExit |-> onExit, validation |-> validation,
   regions |-> <<>>]

Final(onEntry, validation) ==
  [type |-> "final", isFinal |-> FALSE, transitions |-> <<>>,
   onEntry |-> onEntry, onExit |-> FALSE, validation |-> validation,
   regions |-> <<>>]

ParallelNode(regions) ==
  [type |-> "parallel", isFinal |-> FALSE, transitions |-> <<>>,
   onEntry |-> FALSE, onExit |-> FALSE, validation |-> FALSE,
   regions |-> regions]

\* A transition with a guard: "hasD" is truthy on a context that holds the
\* mark "d", "raises" raises whenever it is called.
Guarded(t, guard) == [t EXCEPT !.guard = guard]

\* gate and sub.gate are states no flow of the two engines reaches: the
\* state machine is driven on them directly (SpecMachine), and the engine
\* "picker" starts its flows in gate (SpecQuery).
StateNames ==
  {"draft", "processing", "done", "par", "a1", "a2", "b1", "b2", "gate",
   "sub.gate"}

States ==
  [n \in StateNames |->
    CASE n = "draft" ->
           Atomic(<<Tr("", "SUBMIT", "processing", FALSE, 0),
                    Tr("", "FORK", "par", FALSE, 0)>>, TRUE, FALSE, FALSE)
      [] n = "processing" ->
           Atomic(<<Tr("", "APPROVE", "done", TRUE, 1)>>, FALSE, TRUE, FALSE)
      [] n = "done" -> Final(TRUE, TRUE)
      [] n = "par" ->
           [ParallelNode(<<[name |-> "r1", initialState |-> "a1", states |-> <<"a1", "a2">>],
                           [name |-> "r2", initialState |-> "b1", states |-> <<"b1", "b2">>]>>)
              EXCEPT !.transitions = <<Tr("", "JOIN", "done", FALSE, 0)>>]
      [] n = "a1" ->
           Atomic(<<Tr("", "GO", "a2", FALSE, 0), Tr("", "NEST", "par", FALSE, 0)>>,
                  TRUE, FALSE, FALSE)
      [] n = "a2" -> Final(FALSE, FALSE)
      [] n = "b1" -> Atomic(<<>>, FALSE, FALSE, FALSE)
      [] n = "gate" ->
           Atomic(<<Guarded(Tr("", "PICK", "done", FALSE, 0), "raises"),
                    Guarded(Tr("", "PICK", "processing", TRUE, 2), "hasD"),
                    Tr("", "PICK", "a2", FALSE, 0),
                    Guarded(Tr("", "JUMP", "a1", FALSE, 0), "hasD")>>,
                  FALSE, TRUE, FALSE)
      [] n = "sub.gate" ->
           Atomic(<<Guarded(Tr("", "JUMP", "a2", FALSE, 0), "hasD")>>,
                  FALSE, FALSE, FALSE)
      [] n = "b2" ->
           [type |-> "atomic", isFinal |-> TRUE, transitions |-> <<>>,
            onEntry |-> TRUE, onExit |-> FALSE, validation |-> FALSE,
            regions |-> <<>>]]

\* config.transitions: the global transition table, keyed by from.
GlobalTransitions ==
  <<Tr("b1", "GO", "b2", FALSE, 0),
    Tr("par", "MERGE", "done", FALSE, 0),
    Tr("gate", "PICK", "b2", FALSE, 0),
    Guarded(Tr("gate", "JUMP", "b1", FALSE, 0), "raises"),
    Tr("gate", "JUMP", "done", TRUE, 1)>>

Events == {"SUBMIT", "APPROVE", "GO", "NEST", "NOPE"}

Engines == {"order", "fanout"}

InitialStateOf(engine) ==
  IF engine = "order" THEN "draft"
  ELSE IF engine = "fanout" THEN "par"
  ELSE IF engine = "picker" THEN "gate"  \* several transitions per event
  ELSE "done"    \* "receipt": a definition whose initial state is final

(***************************************************************************)
(* currentState is a string or an array of strings; Array.isArray tells    *)
(* them apart.  list = TRUE is the array form.                             *)
(***************************************************************************)
Single(s) == [list |-> FALSE, names |-> <<s>>]
List(l) == [list |-> TRUE, names |-> l]

\* The names t for which stateName.endsWith("." + t) holds, over the names
\* of the definition: only sub.gate contains a dot.
DottedTails(stateName) ==
  IF stateName = "sub.gate" THEN {"gate"} ELSE {}

\* The filter of getTransitions on config.transitions:
\* stateName === t.from || stateName.endsWith(`.${t.from}`)
AppliesTo(t, stateName) ==
  stateName = t.from \/ t.from \in DottedTails(stateName)

RECURSIVE SelectSeq2(_, _)
\* Array.prototype.filter on config.transitions, for the state stateName.
SelectSeq2(s, stateName) ==
  IF s = <<>> THEN <<>>
  ELSE IF AppliesTo(Head(s), stateName)
       THEN <<Head(s)>> \o SelectSeq2(Tail(s), stateName)
       ELSE SelectSeq2(Tail(s), stateName)

isParallelState(node) == node.type = "parallel"
isCompoundState(node) == node.type = "compound"
isAtomicState(node) == node.type = "atomic"

getTransitionsOfParent(stateName) ==
  IF stateName \notin StateNames THEN <<>>
  ELSE LET node == States[stateName]
           own == IF isAtomicState(node) \/ isParallelState(node)
                  THEN node.transitions ELSE <<>>
           parent == IF stateName \in {"a1", "a2", "b1", "b2"}
                     THEN States["par"].transitions
                          \o SelectSeq2(GlobalTransitions, "par")
                     ELSE <<>>
       IN own \o SelectSeq2(GlobalTransitions, stateName) \o parent

\* StateMachine.getTransitions: the node's own transitions (atomic and
\* parallel nodes), then the global ones that apply to this state.
getTransitions(stateName) ==
  IF stateName \notin StateNames THEN <<>>
  ELSE LET node == States[stateName]
           own == IF isAtomicState(node) \/ isParallelState(node)
                  THEN node.transitions ELSE <<>>
       IN own \o SelectSeq2(GlobalTransitions, stateName)

\* StateMachine.isFinalState
isFinalState(stateName) ==
  IF stateName \notin StateNames THEN FALSE
  ELSE LET node == States[stateName]
       IN IF node.type = "final" THEN TRUE
          ELSE IF isAtomicState(node) \/ isCompoundState(node)
               THEN node.isFinal = TRUE
               ELSE FALSE

isFlowCompleteFirst(cs) == isFinalState(cs.names[1])

isFlowCompleteSome(cs) ==
  \E i \in 1..Len(cs.names) : isFinalState(cs.names[i])

\* FlowEngine.isFlowComplete
isFlowComplete(cs) ==
  \A i \in 1..Len(cs.names) : isFinalState(cs.names[i])


(***************************************************************************)
(* StateMachine.findTransition and executeTransition.  Hooks are user code *)
(* that may raise: every attempt has an outcome, "ok" or the step that     *)
(* raised in it, drawn by the caller from AttemptOutcomes.                 *)
(***************************************************************************)
GuardVerdictRaisesPasses(guard, ctx) ==
  IF guard = "hasD" /\ "d" \notin ctx THEN "falsy" ELSE "truthy"

\* A guard's verdict on a context: "truthy", "falsy" or "raises".
GuardVerdict(guard, ctx) ==
  CASE guard = "hasD" -> IF "d" \in ctx THEN "truthy" ELSE "falsy"
    [] guard = "raises" -> "raises"
    [] OTHER -> "truthy"

RECURSIVE FirstMatch(_, _, _)
\* The for loop of findTransition: the first transition on the event whose
\* guard is absent or truthy; a raising guard is skipped.  <<>> is null.
FirstMatch(transitions, event, ctx) ==
  IF transitions = <<>> THEN <<>>
  ELSE LET t == Head(transitions)
       IN IF t.event = event
             /\ (t.guard = "none" \/ GuardVerdict(t.guard, ctx) = "truthy")
          THEN <<t>>
          ELSE FirstMatch(Tail(transitions), event, ctx)

\* StateMachine.findTransition
findTransition(currentState, event, ctx) ==
  IF currentState \notin StateNames THEN <<>>
  ELSE FirstMatch(getTransitions(currentState), event, ctx)

StepsOfEntryFirst(node, tr) ==
  (IF node.onExit THEN <<"exit">> ELSE <<>>)
  \o (IF tr.action THEN <<"action">> ELSE <<>>)
  \o (IF States[tr.to].onEntry THEN <<"entry">> ELSE <<>>)
  \o (IF States[tr.to].validation THEN <<"validation">> ELSE <<>>)

\* The steps one attempt runs, in order: only the hooks that are defined.
StepsOf(node, tr) ==
  (IF node.onExit THEN <<"exit">> ELSE <<>>)
  \o (IF tr.action THEN <<"action">> ELSE <<>>)
  \o (IF States[tr.to].validation THEN <<"validation">> ELSE <<>>)
  \o (IF States[tr.to].onEntry THEN <<"entry">> ELSE <<>>)

\* What one attempt can do: succeed, or fail in one of its steps.
AttemptOutcomes(node, tr) ==
  {"ok"} \cup {StepsOf(node, tr)[i] : i \in 1..Len(StepsOf(node, tr))}

\* The hooks one attempt invokes: all of them, or those up to the failing one.
AttemptLog(node, tr, outcome) ==
  LET steps == StepsOf(node, tr)
      upto == IF outcome = "ok" THEN Len(steps)
              ELSE CHOOSE i \in 1..Len(steps) : steps[i] = outcome
  IN [i \in 1..upto |-> steps[i]]

\* The message of the error an attempt ends with.
ErrorOf(outcome) ==
  IF outcome = "validation" THEN <<"ValidationFailed">> ELSE <<"HookError">>

HasOnError == TRUE    \* config.onError is registered

RetryLoopOnce(node, tr, outcomes, attempt) ==
  IF outcomes[attempt + 1] = "ok"
  THEN [ok |-> TRUE, error |-> <<>>,
        log |-> AttemptLog(node, tr, outcomes[attempt + 1])]
  ELSE [ok |-> FALSE, error |-> ErrorOf(outcomes[attempt + 1]),
        log |-> AttemptLog(node, tr, outcomes[attempt + 1])
                \o (IF HasOnError THEN <<"onError">> ELSE <<>>)]

RECURSIVE RetryLoop(_, _, _, _)
\* The retry loop of executeTransition from attempt number `attempt`
\* (0-based): [ok, error, log].
RetryLoop(node, tr, outcomes, attempt) ==
  LET o == outcomes[attempt + 1]
      log == AttemptLog(node, tr, o)
  IN IF o = "ok" THEN [ok |-> TRUE, error |-> <<>>, log |-> log]
     ELSE IF attempt < tr.maxAttempts
          THEN LET rest == RetryLoop(node, tr, outcomes, attempt + 1)
               IN [rest EXCEPT !.log = log \o rest.log]
          ELSE [ok |-> FALSE, error |-> ErrorOf(o),
                log |-> log \o (IF HasOnError THEN <<"onError">> ELSE <<>>)]

\* The outcome sequences a call of executeTransition may meet.
OutcomeSeqs(currentState, event, ctx) ==
  LET found == findTransition(currentState, event, ctx)
  IN IF found = <<>> THEN {<<>>}
     ELSE LET tr == found[1]
              node == States[currentState]
          IN {os \in [1..(tr.maxAttempts + 1) -> AttemptOutcomes(node, tr)] :
                \* the attempts after a successful one are never made
                \A i \in 1..tr.maxAttempts : os[i] = "ok" => os[i + 1] = "ok"}

\* StateMachine.executeTransition: a TransitionResult plus the hooks it ran.
executeTransition(currentState, event, ctx, outcomes) ==
  LET fail(msg, log) ==
        [success |-> FALSE, fromState |-> Single(currentState),
         toState |-> Single(currentState), error |-> msg, log |-> log]
  IN IF currentState \notin StateNames THEN fail(<<"StateNotFound">>, <<>>)
     ELSE LET found == findTransition(currentState, event, ctx)
          IN IF found = <<>> THEN fail(<<"NoTransition">>, <<>>)
             ELSE LET tr == found[1]
                      r == RetryLoop(States[currentState], tr, outcomes, 0)
                  IN IF r.ok
                     THEN [success |-> TRUE, fromState |-> Single(currentState),
                           toState |-> Single(tr.to), error |-> <<>>, log |-> r.log]
                     ELSE fail(r.error, r.log)


(***************************************************************************)
(* State.                                                                  *)
(*   store    InMemoryStateStorage.states: flowId -> the scalar fields of  *)
(*            the stored FlowState and the reference to its context        *)
(*   arrays   heap: the history, compensations and subFlows arrays of the  *)
(*            flow created under a flowId (start allocates them, every     *)
(*            snapshot of the flow shares them)                            *)
(*   ctxs     heap: the context objects                                    *)
(*   keys     InMemoryStateStorage.idempotencyKeys: key -> flowId, with    *)
(*            history fields: by, the operation that bound the key; done,  *)
(*            whether an execute carrying the key has returned; was, the   *)
(*            operation whose binding this one replaced ("" if none);      *)
(*            first, the flowId the key was first bound to                 *)
(*   taken    history: per flow, the successful transitions taken          *)
(*   middlewares  FlowEngine.middlewares of the engine "order"             *)
(*   last     what the last call was and what it gave back (for cancel     *)
(*            also wasCompensated: whether the flow's error said before    *)
(*            the call that its compensations had run)                     *)
(*   calls    the calls in flight (SpecOverlap, SpecStarts), or the last   *)
(*            call's arguments (the specifications that say so)            *)
(*   snap     the snapshot a client of the storage holds (SpecClient only) *)
(***************************************************************************)
VARIABLES store, arrays, ctxs, keys, taken, middlewares, last, calls, snap

vars == <<store, arrays, ctxs, keys, taken, middlewares, last, calls, snap>>

NoError == [set |-> FALSE, message |-> <<>>]
ErrorWith(msg) == [set |-> TRUE, message |-> msg]

\* The storage and heap as one value, threaded through the operations.
World == [store |-> store, arrays |-> arrays, ctxs |-> ctxs, keys |-> keys,
          taken |-> taken]

\* InMemoryStateStorage.exists
exists(w, flowId) == flowId \in DOMAIN w.store

\* InMemoryStateStorage.getFlowIdByIdempotencyKey: the bound id, or null ("").
getFlowIdByIdempotencyKey(w, key) ==
  IF key \in DOMAIN w.keys THEN w.keys[key].flowId ELSE NoId

\* InMemoryStateStorage.saveIdempotencyKey: Map.set, which overwrites.
saveIdempotencyKey(w, key, flowId, by) ==
  [w EXCEPT !.keys = [k \in DOMAIN w.keys \cup {key} |->
                        IF k = key
                        THEN [flowId |-> flowId, by |-> by,
                              done |-> IF key \in DOMAIN w.keys
                                       THEN w.keys[key].done ELSE FALSE,
                              was |-> IF key \in DOMAIN w.keys
                                      THEN w.keys[key].by ELSE "",
                              first |-> IF key \in DOMAIN w.keys
                                        THEN w.keys[key].first ELSE flowId]
                        ELSE w.keys[k]]]

\* InMemoryStateStorage.save: states.set(flowId, {...state}).  The scalar
\* fields are copied, the arrays and the context stay shared.
save(w, fs) ==
  [w EXCEPT !.store = [f \in DOMAIN w.store \cup {fs.flowId} |->
                         IF f = fs.flowId THEN fs ELSE w.store[f]]]

\* What a reader sees of a stored flow: its fields with the heap objects
\* they refer to (a deep view of get(flowId)).
ViewIn(w, f) ==
  LET fs == w.store[f]
  IN [flowId |-> fs.flowId, defId |-> fs.defId, status |-> fs.status,
      currentState |-> fs.currentState, error |-> fs.error,
      parentFlowId |-> fs.parentFlowId,
      history |-> w.arrays[f].history,
      compensations |-> w.arrays[f].compensations,
      subFlows |-> [i \in 1..Len(w.arrays[f].subFlows) |->
                      [w.arrays[f].subFlows[i] EXCEPT
                         !.result = IF @ = 0 THEN {} ELSE w.ctxs[@]]],
      context |-> w.ctxs[fs.ctx]]

View(f) == ViewIn(World, f)
StoreView == [f \in DOMAIN store |-> View(f)]

\* The ids some stored flow, key or sub-flow reference uses.
UsedIds(w) ==
  DOMAIN w.store
  \cup {w.keys[k].flowId : k \in DOMAIN w.keys}
  \cup UNION {{w.arrays[f].subFlows[i].subFlowId :
                 i \in 1..Len(w.arrays[f].subFlows)} : f \in DOMAIN w.arrays}

\* generateUUID: an id of the pool that nothing uses yet.
FreshIds(w, pool) == pool \ UsedIds(w)

\* A new context object: the first free heap address.
NewCtx(w) ==
  CHOOSE c \in 1..(Cardinality(DOMAIN w.ctxs) + 1) :
    c \notin DOMAIN w.ctxs /\ \A d \in 1..(c - 1) : d \in DOMAIN w.ctxs

\* The names of the states whose onEntry hook start runs.
EntryHooksOf(cs) ==
  SelectSeq(cs.names, LAMBDA n : n \in StateNames /\ States[n].onEntry)

\* What a call gives back when it raises `kind` before it touches anything.
Raise(w, kind) ==
  [raised |-> kind, w |-> w, ret |-> NoId, success |-> FALSE, noop |-> FALSE,
   fromState |-> Single(""), toState |-> Single(""), compensated |-> FALSE,
   log |-> <<>>, comps |-> <<>>, compsRaised |-> <<>>, error |-> <<>>]

\* What a call gives back when it returns normally, before the details.
Return(w) == Raise(w, "")

\* The currentState start gives a new flow: the initial state, or the
\* initial states of the regions of a parallel initial state.
InitialCurrentState(engine) ==
  LET node == States[InitialStateOf(engine)]
  IN IF isParallelState(node)
     THEN List([i \in 1..Len(node.regions) |-> node.regions[i].initialState])
     ELSE Single(InitialStateOf(engine))

startFailedWins(w, engine, opts, uuid, raises) ==
  LET existingFlowId == IF opts.key # NoKey
                        THEN getFlowIdByIdempotencyKey(w, opts.key) ELSE NoId
      flowId == IF opts.flowId # NoId THEN opts.flowId ELSE uuid
  IN IF existingFlowId # NoId /\ exists(w, existingFlowId)
     THEN [Return(w) EXCEPT !.ret = existingFlowId, !.noop = TRUE]
     ELSE IF exists(w, flowId) THEN Raise(w, "Duplicate")
     ELSE LET w1 == IF opts.key # NoKey
                    THEN saveIdempotencyKey(w, opts.key, flowId, "start") ELSE w
              cs == InitialCurrentState(engine)
              ctx == IF opts.ctxRef # 0 THEN opts.ctxRef ELSE NewCtx(w)
              hooks == EntryHooksOf(cs)
              failed == raises /\ hooks # <<>>
              fs == [flowId |-> flowId, defId |-> engine, currentState |-> cs,
                     status |-> IF failed THEN "failed"
                                ELSE IF isFlowComplete(cs) THEN "completed"
                                ELSE "active",
                     error |-> IF failed THEN ErrorWith(<<"HookError">>)
                               ELSE NoError,
                     ctx |-> ctx, parentFlowId |-> opts.parentFlowId]
              w2 == [w1 EXCEPT
                       !.arrays = [f \in DOMAIN w1.arrays \cup {flowId} |->
                                     IF f = flowId
                                     THEN [history |-> <<>>,
                                           compensations |-> <<>>,
                                           subFlows |-> <<>>]
                                     ELSE w1.arrays[f]],
                       !.ctxs = [c \in DOMAIN w1.ctxs \cup {ctx} |->
                                   IF c \in DOMAIN w1.ctxs THEN w1.ctxs[c]
                                   ELSE opts.context],
                       !.taken = [f \in DOMAIN w1.taken \cup {flowId} |->
                                    IF f = flowId THEN 0 ELSE w1.taken[f]]]
          IN [Return(save(w2, fs)) EXCEPT
                !.ret = flowId, !.log = [i \in 1..Len(hooks) |-> "entry"]]

\* FlowEngine.start.  opts = [flowId, key, context, hasContext, ctxRef,
\* parentFlowId]: context is the content of options.context ({} when it is
\* absent), ctxRef the context object to share instead (startSubFlow).  uuid
\* is what generateUUID gives, raises whether an onEntry hook raises.
\* message is error.message (or String(error)) of what the hook raises: <<>>
\* is the empty string.
startRaising(w, engine, opts, uuid, raises, message) ==
  LET existingFlowId == IF opts.key # NoKey
                        THEN getFlowIdByIdempotencyKey(w, opts.key) ELSE NoId
      flowId == IF opts.flowId # NoId THEN opts.flowId ELSE uuid
  IN IF existingFlowId # NoId /\ exists(w, existingFlowId)
     THEN [Return(w) EXCEPT !.ret = existingFlowId, !.noop = TRUE]
     ELSE IF exists(w, flowId) THEN Raise(w, "Duplicate")
     ELSE LET w1 == IF opts.key # NoKey
                    THEN saveIdempotencyKey(w, opts.key, flowId, "start") ELSE w
              cs == InitialCurrentState(engine)
              ctx == IF opts.ctxRef # 0 THEN opts.ctxRef ELSE NewCtx(w)
              hooks == EntryHooksOf(cs)
              failed == raises /\ hooks # <<>>
              fs == [flowId |-> flowId, defId |-> engine, currentState |-> cs,
                     status |-> IF isFlowComplete(cs) THEN "completed"
                                ELSE IF failed THEN "failed" ELSE "active",
                     error |-> IF failed THEN ErrorWith(message)
                               ELSE NoError,
                     ctx |-> ctx, parentFlowId |-> opts.parentFlowId]
              w2 == [w1 EXCEPT
                       !.arrays = [f \in DOMAIN w1.arrays \cup {flowId} |->
                                     IF f = flowId
                                     THEN [history |-> <<>>,
                                           compensations |-> <<>>,
                                           subFlows |-> <<>>]
                                     ELSE w1.arrays[f]],
                       !.ctxs = [c \in DOMAIN w1.ctxs \cup {ctx} |->
                                   IF c \in DOMAIN w1.ctxs THEN w1.ctxs[c]
                                   ELSE opts.context],
                       !.taken = [f \in DOMAIN w1.taken \cup {flowId} |->
                                    IF f = flowId THEN 0 ELSE w1.taken[f]]]
          IN [Return(save(w2, fs)) EXCEPT
                !.ret = flowId, !.log = [i \in 1..Len(hooks) |-> "entry"]]

\* FlowEngine.start with hooks that raise new Error("HookError").
start(w, engine, opts, uuid, raises) ==
  startRaising(w, engine, opts, uuid, raises, <<"HookError">>)


(***************************************************************************)
(* FlowEngine.compensate, executeParallelTransition, executeCore, execute. *)
(***************************************************************************)
Reverse(s) == [i \in 1..Len(s) |-> s[Len(s) + 1 - i]]

\* The for loop of compensate over `order`: the actions invoked when the
\* loop goes on after an action that raises, and those of them that raised.
RunAll(order, raisers) ==
  [invoked |-> [i \in 1..Len(order) |-> order[i].action],
   raised |-> SelectSeq([i \in 1..Len(order) |-> order[i].action],
                        LAMBDA a : a \in raisers)]

compensateStopsAtRaise(w, fs, errorMessage, raisers) ==
  LET comps == w.arrays[fs.flowId].compensations
      all == RunAll(Reverse(comps), raisers).invoked
      stop == IF \E i \in 1..Len(all) : all[i] \in raisers
              THEN CHOOSE i \in 1..Len(all) :
                     all[i] \in raisers /\ \A j \in 1..(i - 1) : all[j] \notin raisers
              ELSE Len(all)
  IN IF comps = <<>>
     THEN [w |-> w, compensated |-> FALSE, comps |-> <<>>, compsRaised |-> <<>>,
           fs |-> [fs EXCEPT !.status = "failed",
                             !.error = ErrorWith(errorMessage)]]
     ELSE [w |-> save(w, [fs EXCEPT !.status = "compensating"]),
           compensated |-> TRUE,
           comps |-> SubSeq(all, 1, stop),
           compsRaised |-> SelectSeq(SubSeq(all, 1, stop), LAMBDA a : a \in raisers),
           fs |-> [fs EXCEPT !.status = "failed",
                             !.error = ErrorWith(errorMessage \o <<"(compensated)">>)]]

compensatePopsStack(w, fs, errorMessage, raisers) ==
  LET comps == w.arrays[fs.flowId].compensations
      run == RunAll(Reverse(comps), raisers)
  IN IF comps = <<>>
     THEN [w |-> w, compensated |-> FALSE, comps |-> <<>>, compsRaised |-> <<>>,
           fs |-> [fs EXCEPT !.status = "failed",
                             !.error = ErrorWith(errorMessage)]]
     ELSE [w |-> [save(w, [fs EXCEPT !.status = "compensating"])
                    EXCEPT !.arrays[fs.flowId].compensations = <<>>],
           compensated |-> TRUE,
           comps |-> run.invoked, compsRaised |-> run.raised,
           fs |-> [fs EXCEPT !.status = "failed",
                             !.error = ErrorWith(errorMessage \o <<"(compensated)">>)]]

compensateAlwaysReportsTrue(w, fs, errorMessage, raisers) ==
  LET comps == w.arrays[fs.flowId].compensations
      run == RunAll(Reverse(comps), raisers)
  IN [w |-> save(w, [fs EXCEPT !.status = "compensating"]),
      compensated |-> TRUE,
      comps |-> run.invoked, compsRaised |-> run.raised,
      fs |-> [fs EXCEPT !.status = "failed",
                        !.error = ErrorWith(errorMessage \o <<"(compensated)">>)]]

compensateKeepsStatus(w, fs, errorMessage, raisers) ==
  LET comps == w.arrays[fs.flowId].compensations
      run == RunAll(Reverse(comps), raisers)
  IN IF comps = <<>>
     THEN [w |-> w, compensated |-> FALSE, comps |-> <<>>, compsRaised |-> <<>>,
           fs |-> [fs EXCEPT !.status = "failed",
                             !.error = ErrorWith(errorMessage)]]
     ELSE [w |-> save(w, [fs EXCEPT !.status = "compensating"]),
           compensated |-> TRUE,
           comps |-> run.invoked, compsRaised |-> run.raised,
           fs |-> [fs EXCEPT !.status = "compensating",
                             !.error = ErrorWith(errorMessage \o <<"(compensated)">>)]]

\* FlowEngine.compensate: [w, fs, compensated, comps, compsRaised], comps
\* being the actions invoked, in order, and compsRaised those of them that
\* raised (raisers: the actions that raise when invoked).  An action that
\* raises is caught inside the loop, so the outer catch is never entered.
compensate(w, fs, errorMessage, raisers) ==
  LET comps == w.arrays[fs.flowId].compensations
      run == RunAll(Reverse(comps), raisers)
  IN IF comps = <<>>
     THEN [w |-> w, compensated |-> FALSE, comps |-> <<>>, compsRaised |-> <<>>,
           fs |-> [fs EXCEPT !.status = "failed",
                             !.error = ErrorWith(errorMessage)]]
     ELSE [w |-> save(w, [fs EXCEPT !.status = "compensating"]),
           compensated |-> TRUE,
           comps |-> run.invoked, compsRaised |-> run.raised,
           fs |-> [fs EXCEPT !.status = "failed",
                             !.error = ErrorWith(errorMessage \o <<"(compensated)">>)]]

\* parseInt(options.targetRegion, 10); -1 stands for NaN.
parseInt(s) ==
  CASE s = "0" -> 0 [] s = "1" -> 1 [] s = "2" -> 2 [] OTHER -> -1

\* The regions of a flow that a call attempts (1-based).
AttemptedRegions(cs, targetRegion) ==
  IF ~cs.list THEN {1}
  ELSE IF targetRegion = NoRegion THEN 1..Len(cs.names)
  ELSE {i \in 1..Len(cs.names) : i = parseInt(targetRegion) + 1}

\* The hook outcomes a call may meet: one outcome sequence per region.
ExecOutcomes(cs, event, targetRegion, ctx) ==
  {oc \in [1..Len(cs.names) ->
             UNION {OutcomeSeqs(cs.names[i], event, ctx) : i \in 1..Len(cs.names)}
             \cup {<<>>}] :
     \A i \in 1..Len(cs.names) :
       IF i \in AttemptedRegions(cs, targetRegion)
       THEN oc[i] \in OutcomeSeqs(cs.names[i], event, ctx)
       ELSE oc[i] = <<>>}

RECURSIVE ConcatLogs(_, _)
\* The hooks the regions ran, region by region.
ConcatLogs(results, i) ==
  IF i > Len(results) THEN <<>>
  ELSE results[i].log \o ConcatLogs(results, i + 1)

InRegionReplacesFirst(cs, regionIndex, result) ==
  IF result.success
  THEN [thrown |-> <<>>,
        tr |-> [result EXCEPT
                  !.fromState = cs,
                  !.toState = List([cs.names EXCEPT
                     ![1] = result.toState.names[1]])]]
  ELSE [thrown |-> <<>>, tr |-> result]

BroadcastNeedsAll(cs, transitions) ==
  IF \E i \in 1..Len(cs.names) : ~transitions[i].success
  THEN [thrown |-> <<>>,
        tr |-> [success |-> FALSE, fromState |-> cs, toState |-> cs,
                error |-> <<"No region accepted the event">>,
                log |-> ConcatLogs(transitions, 1)]]
  ELSE [thrown |-> <<>>,
        tr |-> [success |-> TRUE, fromState |-> cs,
                toState |-> List([i \in 1..Len(cs.names) |->
                   transitions[i].toState.names[1]]),
                error |-> <<>>, log |-> ConcatLogs(transitions, 1)]]

\* The result of the targeted branch of executeParallelTransition, given
\* what executeTransition returned for the region.
InRegion(cs, regionIndex, result) ==
  IF result.success
  THEN \* result.toState is transition.to, never an array
       [thrown |-> <<>>,
        tr |-> [result EXCEPT
                  !.fromState = cs,
                  !.toState = List([cs.names EXCEPT
                     ![regionIndex + 1] = result.toState.names[1]])]]
  ELSE [thrown |-> <<>>, tr |-> result]

\* The result of the broadcast branch of executeParallelTransition, given
\* what executeTransition returned for each region.
Broadcast(cs, transitions) ==
  IF \A i \in 1..Len(cs.names) : ~transitions[i].success
  THEN [thrown |-> <<>>,
        tr |-> [success |-> FALSE, fromState |-> cs, toState |-> cs,
                error |-> <<"No region accepted the event">>,
                log |-> ConcatLogs(transitions, 1)]]
  ELSE [thrown |-> <<>>,
        tr |-> [success |-> TRUE, fromState |-> cs,
                toState |-> List([i \in 1..Len(cs.names) |->
                   IF transitions[i].success
                   THEN transitions[i].toState.names[1]
                   ELSE cs.names[i]]),
                error |-> <<>>, log |-> ConcatLogs(transitions, 1)]]

\* FlowEngine.executeParallelTransition: [thrown, tr].  thrown is the
\* message of the error it raises, <<>> when it returns tr.
executeParallelTransition(cs, opts, ctx, oc) ==
  IF opts.targetRegion # NoRegion
  THEN IF parseInt(opts.targetRegion) < 0
          \/ parseInt(opts.targetRegion) >= Len(cs.names)
       THEN [thrown |-> <<"Invalid region index: ", opts.targetRegion>>,
             tr |-> [success |-> FALSE, fromState |-> cs, toState |-> cs,
                     error |-> <<"Invalid region index: ", opts.targetRegion>>,
                     log |-> <<>>]]
       ELSE InRegion(cs, parseInt(opts.targetRegion),
                     executeTransition(cs.names[parseInt(opts.targetRegion) + 1],
                        opts.event, ctx, oc[parseInt(opts.targetRegion) + 1]))
  ELSE Broadcast(cs, [i \in 1..Len(cs.names) |->
                        executeTransition(cs.names[i], opts.event, ctx, oc[i])])

\* The transition step of executeCore on the snapshot fs: [thrown, tr].
Dispatch(fs, opts, ctx, oc) ==
  IF fs.currentState.list
  THEN executeParallelTransition(fs.currentState, opts, ctx, oc)
  ELSE [thrown |-> <<>>,
        tr |-> executeTransition(fs.currentState.names[1], opts.event, ctx, oc[1])]

\* The message executeCore's catch block hands to compensate.
FailureMessage(pr) ==
  IF pr.thrown # <<>> THEN pr.thrown
  ELSE IF pr.tr.error # <<>> THEN pr.tr.error
  ELSE <<"Transition failed">>

\* The success branch of executeCore: the history record is pushed on the
\* shared array, the snapshot gets the new state and perhaps completed.
Advance(w, fs, pr, event) ==
  [w |-> [w EXCEPT !.arrays[fs.flowId].history =
                     Append(@, [from |-> pr.tr.fromState, to |-> pr.tr.toState,
                                event |-> event])],
   fs |-> [fs EXCEPT !.currentState = pr.tr.toState,
                     !.status = IF isFlowComplete(pr.tr.toState)
                                THEN "completed" ELSE @]]

executeCoreRecordsFailure(w, flowId, opts, env) ==
  IF ~exists(w, flowId) THEN Raise(w, "NotFound")
  ELSE IF w.store[flowId].status # "active" THEN Raise(w, "NotActive")
  ELSE
    LET fs0 == w.store[flowId]
        w1 == [w EXCEPT !.ctxs[fs0.ctx] = @ \cup opts.data]
        pr == Dispatch(fs0, opts, w1.ctxs[fs0.ctx], env.oc)
    IN IF pr.thrown = <<>> /\ pr.tr.success
       THEN LET a == Advance(w1, fs0, pr, opts.event)
            IN [Return(save(a.w, a.fs)) EXCEPT
                  !.ret = flowId, !.success = TRUE,
                  !.fromState = pr.tr.fromState, !.toState = pr.tr.toState,
                  !.log = pr.tr.log]
       ELSE LET w2 == [w1 EXCEPT !.arrays[flowId].history =
                         Append(@, [from |-> fs0.currentState,
                                    to |-> fs0.currentState,
                                    event |-> opts.event])]
                c == compensate(w2, fs0, FailureMessage(pr), env.cr)
            IN [Return(save(c.w, c.fs)) EXCEPT
                  !.ret = flowId,
                  !.fromState = c.fs.currentState, !.toState = c.fs.currentState,
                  !.compensated = c.compensated, !.log = pr.tr.log,
                  !.comps = c.comps, !.compsRaised = c.compsRaised]

executeCoreRaisesFailure(w, flowId, opts, env) ==
  IF ~exists(w, flowId) THEN Raise(w, "NotFound")
  ELSE IF w.store[flowId].status # "active" THEN Raise(w, "NotActive")
  ELSE
    LET fs0 == w.store[flowId]
        w1 == [w EXCEPT !.ctxs[fs0.ctx] = @ \cup opts.data]
        pr == Dispatch(fs0, opts, w1.ctxs[fs0.ctx], env.oc)
    IN IF pr.thrown = <<>> /\ pr.tr.success
       THEN LET a == Advance(w1, fs0, pr, opts.event)
            IN [Return(save(a.w, a.fs)) EXCEPT
                  !.ret = flowId, !.success = TRUE,
                  !.fromState = pr.tr.fromState, !.toState = pr.tr.toState,
                  !.log = pr.tr.log]
       ELSE [Raise(w1, "ExecutionError") EXCEPT !.log = pr.tr.log]

\* The result executeCore returns after a successful transition, a being
\* what Advance made of the snapshot.
Succeeded(a, pr) ==
  [Return(save(a.w, a.fs)) EXCEPT
     !.ret = a.fs.flowId, !.success = TRUE,
     !.fromState = pr.tr.fromState, !.toState = pr.tr.toState,
     !.log = pr.tr.log]

\* The result executeCore's catch block returns, c being what compensate
\* made of the snapshot.
Failed(c, pr) ==
  [Return(save(c.w, c.fs)) EXCEPT
     !.ret = c.fs.flowId,
     !.fromState = c.fs.currentState, !.toState = c.fs.currentState,
     !.compensated = c.compensated, !.log = pr.tr.log,
     !.comps = c.comps, !.compsRaised = c.compsRaised,
     !.error = FailureMessage(pr)]

\* executeCore from the transition's result pr on: the try block's success
\* branch, or the catch block.
Settle(w, fs, pr, opts, env) ==
  IF pr.thrown = <<>> /\ pr.tr.success
  THEN Succeeded(Advance(w, fs, pr, opts.event), pr)
  ELSE Failed(compensate(w, fs, FailureMessage(pr), env.cr), pr)

\* executeCore on an active flow, w being the heap after
\* Object.assign(flowState.context, options.data).
Transition(w, fs, opts, env) ==
  Settle(w, fs, Dispatch(fs, opts, w.ctxs[fs.ctx], env.oc), opts, env)

\* FlowEngine.executeCore.  opts = [event, key, data, targetRegion]; env is
\* what the user code does in the call: env.oc the hook outcomes per region,
\* env.cr the compensation actions that raise.
executeCore(w, flowId, opts, env) ==
  IF ~exists(w, flowId) THEN Raise(w, "NotFound")
  ELSE IF w.store[flowId].status # "active" THEN Raise(w, "NotActive")
  ELSE Transition([w EXCEPT !.ctxs[w.store[flowId].ctx] = @ \cup opts.data],
                  w.store[flowId], opts, env)

\* The compensation actions recorded on a stored flow.
ActionsOn(w, flowId) ==
  IF exists(w, flowId)
  THEN {w.arrays[flowId].compensations[i].action :
          i \in 1..Len(w.arrays[flowId].compensations)}
  ELSE {}

\* What the user code may do in a call of executeCore on the flow as stored.
CoreEnvs(w, flowId, opts) ==
  IF exists(w, flowId) /\ w.store[flowId].status = "active"
  THEN [oc : ExecOutcomes(w.store[flowId].currentState, opts.event,
                          opts.targetRegion,
                          w.ctxs[w.store[flowId].ctx] \cup opts.data),
        cr : SUBSET ActionsOn(w, flowId)]
  ELSE {[oc |-> <<>>, cr |-> {}]}

\* The innermost middleware that raises in its after part, 0 if none.
LastLate(mws) ==
  IF \E i \in 1..Len(mws) : mws[i] = "late"
  THEN CHOOSE k \in 1..Len(mws) :
         /\ mws[k] = "late"
         /\ \A j \in (k + 1)..Len(mws) : mws[j] # "late"
  ELSE 0

\* What the middleware chain makes of the result r of executeCore.  The
\* before parts have all run.  If executeCore raised, the error passes
\* through every await next() and no after part runs.  Otherwise the after
\* parts run from the innermost outwards, up to the first one that raises:
\* the flow is stored as executeCore left it, and r.success keeps what
\* executeCore had returned to the chain.
Wrapped(r, mws) ==
  IF r.raised # ""
  THEN [r EXCEPT !.log = [i \in 1..Len(mws) |-> "mw-in"]]
  ELSE IF LastLate(mws) = 0
  THEN [r EXCEPT !.log = [i \in 1..Len(mws) |-> "mw-in"] \o @
                         \o [i \in 1..Len(mws) |-> "mw-out"]]
  ELSE [r EXCEPT !.raised = "MiddlewareError", !.ret = NoId,
                 !.log = [i \in 1..Len(mws) |-> "mw-in"] \o @
                         \o [i \in 1..(Len(mws) - LastLate(mws)) |-> "mw-out"]]

executeWithMiddlewareRunsCore(w, mws, flowId, opts, env) ==
  IF ~exists(w, flowId) THEN Raise(w, "NotFound")
  ELSE IF \E i \in 1..Len(mws) : mws[i] = "throw"
       THEN [executeCore(w, flowId, opts, env) EXCEPT
               !.raised = "MiddlewareError", !.log = <<"mw-in">>]
       ELSE Wrapped(executeCore(w, flowId, opts, env), mws)

executeWithMiddlewareCompensates(w, mws, flowId, opts, env) ==
  IF ~exists(w, flowId) THEN Raise(w, "NotFound")
  ELSE IF \E i \in 1..Len(mws) : mws[i] = "throw"
       THEN IF w.store[flowId].status # "active" THEN Raise(w, "NotActive")
            ELSE Failed(compensate(w, w.store[flowId], <<"MiddlewareError">>, env.cr),
                        [thrown |-> <<"MiddlewareError">>,
                         tr |-> [log |-> <<"mw-in">>]])
       ELSE Wrapped(executeCore(w, flowId, opts, env), mws)

\* FlowEngine.executeWithMiddleware.  A middleware is "pass" (runs its
\* before part, awaits next(), runs its after part), "throw" (raises
\* before it calls next) or "late" (awaits next() and raises in its after
\* part).  Nothing in the chain catches what a middleware raises.
executeWithMiddleware(w, mws, flowId, opts, env) ==
  IF ~exists(w, flowId) THEN Raise(w, "NotFound")
  ELSE IF \E i \in 1..Len(mws) : mws[i] = "throw"
       THEN [Raise(w, "MiddlewareError") EXCEPT
               !.log = [i \in 1..(CHOOSE k \in 1..Len(mws) :
                                    /\ mws[k] = "throw"
                                    /\ \A j \in 1..(k - 1) : mws[j] # "throw")
                        |-> "mw-in"]]
       ELSE Wrapped(executeCore(w, flowId, opts, env), mws)

executeIgnoresKey(w, mws, flowId, opts, env) ==
  LET w1 == IF opts.key # NoKey /\ getFlowIdByIdempotencyKey(w, opts.key) = NoId
            THEN saveIdempotencyKey(w, opts.key, flowId, "execute") ELSE w
  IN IF mws # <<>> THEN executeWithMiddleware(w1, mws, flowId, opts, env)
     ELSE executeCore(w1, flowId, opts, env)

executeChecksStatusFirst(w, mws, flowId, opts, env) ==
  LET existingFlowId == IF opts.key # NoKey
                        THEN getFlowIdByIdempotencyKey(w, opts.key) ELSE NoId
      w1 == IF opts.key # NoKey /\ existingFlowId = NoId
            THEN saveIdempotencyKey(w, opts.key, flowId, "execute") ELSE w
  IN IF existingFlowId # NoId /\ exists(w, flowId)
        /\ w.store[flowId].status = "active"
     THEN [Return(w) EXCEPT
             !.ret = flowId, !.success = TRUE, !.noop = TRUE,
             !.fromState = w.store[flowId].currentState,
             !.toState = w.store[flowId].currentState]
     ELSE IF mws # <<>> THEN executeWithMiddleware(w1, mws, flowId, opts, env)
     ELSE executeCore(w1, flowId, opts, env)

executeBindsProcessed(w, mws, flowId, opts, env) ==
  LET existingFlowId == IF opts.key # NoKey
                        THEN getFlowIdByIdempotencyKey(w, opts.key) ELSE NoId
      r == IF mws # <<>> THEN executeWithMiddleware(w, mws, flowId, opts, env)
           ELSE executeCore(w, flowId, opts, env)
  IN IF existingFlowId # NoId /\ exists(w, flowId)
     THEN [Return(w) EXCEPT
             !.ret = flowId, !.success = TRUE, !.noop = TRUE,
             !.fromState = w.store[flowId].currentState,
             !.toState = w.store[flowId].currentState]
     ELSE IF opts.key # NoKey /\ existingFlowId = NoId /\ r.raised = ""
     THEN [r EXCEPT !.w = saveIdempotencyKey(r.w, opts.key, flowId, "execute")]
     ELSE r

\* FlowEngine.execute
execute(w, mws, flowId, opts, env) ==
  LET existingFlowId == IF opts.key # NoKey
                        THEN getFlowIdByIdempotencyKey(w, opts.key) ELSE NoId
      w1 == IF opts.key # NoKey /\ existingFlowId = NoId
            THEN saveIdempotencyKey(w, opts.key, flowId, "execute") ELSE w
  IN IF existingFlowId # NoId /\ exists(w, flowId)
     THEN [Return(w) EXCEPT
             !.ret = flowId, !.success = TRUE, !.noop = TRUE,
             !.fromState = w.store[flowId].currentState,
             !.toState = w.store[flowId].currentState]
     ELSE IF mws # <<>> THEN executeWithMiddleware(w1, mws, flowId, opts, env)
     ELSE executeCore(w1, flowId, opts, env)


(***************************************************************************)
(* FlowEngine.pause, resume, cancel, recordCompensation, delete,           *)
(* startSubFlow, waitForSubFlow.                                           *)
(***************************************************************************)
\* FlowEngine.pause
pause(w, flowId) ==
  IF ~exists(w, flowId) THEN Raise(w, "NotFound")
  ELSE IF w.store[flowId].status # "active" THEN Raise(w, "NotActive")
  ELSE [Return(save(w, [w.store[flowId] EXCEPT !.status = "paused"]))
          EXCEPT !.ret = flowId]

resumeFromAnyStatus(w, flowId) ==
  IF ~exists(w, flowId) THEN Raise(w, "NotFound")
  ELSE [Return(save(w, [w.store[flowId] EXCEPT !.status = "active"]))
          EXCEPT !.ret = flowId]

\* FlowEngine.resume
resume(w, flowId) ==
  IF ~exists(w, flowId) THEN Raise(w, "NotFound")
  ELSE IF w.store[flowId].status # "paused" THEN Raise(w, "NotPaused")
  ELSE [Return(save(w, [w.store[flowId] EXCEPT !.status = "active"]))
          EXCEPT !.ret = flowId]

cancelSkipsCompensated(w, flowId, triggerCompensation, raisers) ==
  IF ~exists(w, flowId) THEN Raise(w, "NotFound")
  ELSE IF w.store[flowId].status = "completed" THEN Raise(w, "CannotCancel")
  ELSE IF /\ triggerCompensation
          /\ ~(/\ w.store[flowId].error.message # <<>>
               /\ w.store[flowId].error.message[
                    Len(w.store[flowId].error.message)] = "(compensated)")
       THEN LET c == compensate(w, w.store[flowId], <<"Flow cancelled by user">>, raisers)
            IN [Return(save(c.w, c.fs)) EXCEPT
                  !.ret = flowId, !.compensated = c.compensated,
                  !.comps = c.comps, !.compsRaised = c.compsRaised]
       ELSE [Return(save(w, [w.store[flowId] EXCEPT
                               !.status = "failed",
                               !.error = ErrorWith(<<"Flow cancelled by user">>)]))
               EXCEPT !.ret = flowId]

cancelAlwaysCompensates(w, flowId, triggerCompensation, raisers) ==
  IF ~exists(w, flowId) THEN Raise(w, "NotFound")
  ELSE IF w.store[flowId].status = "completed" THEN Raise(w, "CannotCancel")
  ELSE LET c == compensate(w, w.store[flowId], <<"Flow cancelled by user">>,
                           ActionsOn(w, flowId) \cap raisers)
       IN [Return(save(c.w, c.fs)) EXCEPT
             !.ret = flowId, !.compensated = c.compensated,
             !.comps = c.comps, !.compsRaised = c.compsRaised]

\* FlowEngine.cancel
cancel(w, flowId, triggerCompensation, raisers) ==
  IF ~exists(w, flowId) THEN Raise(w, "NotFound")
  ELSE IF w.store[flowId].status = "completed" THEN Raise(w, "CannotCancel")
  ELSE IF triggerCompensation
       THEN LET c == compensate(w, w.store[flowId], <<"Flow cancelled by user">>, raisers)
            IN [Return(save(c.w, c.fs)) EXCEPT
                  !.ret = flowId, !.compensated = c.compensated,
                  !.comps = c.comps, !.compsRaised = c.compsRaised]
       ELSE [Return(save(w, [w.store[flowId] EXCEPT
                               !.status = "failed",
                               !.error = ErrorWith(<<"Flow cancelled by user">>)]))
               EXCEPT !.ret = flowId]

\* FlowEngine.recordCompensation: the record is pushed on the shared array.
recordCompensation(w, flowId, action) ==
  IF ~exists(w, flowId) THEN Raise(w, "NotFound")
  ELSE [Return(save([w EXCEPT !.arrays[flowId].compensations =
                                 Append(@, [action |-> action])],
                    w.store[flowId]))
          EXCEPT !.ret = flowId]

\* The sub-flow ids listed on a stored flow.
Children(w, flowId) ==
  IF exists(w, flowId)
  THEN {w.arrays[flowId].subFlows[i].subFlowId :
          i \in 1..Len(w.arrays[flowId].subFlows)}
  ELSE {}

RECURSIVE Reach(_, _, _)
Reach(w, S, n) ==
  IF n = 0 THEN S
  ELSE Reach(w, S \cup UNION {Children(w, f) : f \in S}, n - 1)

\* The flows delete(flowId) recurses into.
Descendants(w, flowId) ==
  Reach(w, Children(w, flowId), Cardinality(DOMAIN w.store))

\* delete(flowId) never returns when the subFlows references it follows
\* lead back to a flow it is still deleting.
OnCycle(w, flowId) ==
  \E g \in {flowId} \cup Descendants(w, flowId) : g \in Descendants(w, g)

RECURSIVE deleteAll(_, _, _)
RECURSIVE delete(_, _)
\* The for loop of delete over flow.subFlows, from index i.
deleteAll(w, subFlows, i) ==
  IF i > Len(subFlows) THEN w
  ELSE deleteAll(delete(w, subFlows[i].subFlowId), subFlows, i + 1)

\* FlowEngine.delete, with InMemoryStateStorage.delete as its last step.
delete(w, flowId) ==
  LET w1 == IF exists(w, flowId)
            THEN deleteAll(w, w.arrays[flowId].subFlows, 1) ELSE w
  IN [w1 EXCEPT !.store = [f \in DOMAIN w1.store \ {flowId} |-> w1.store[f]]]

RECURSIVE AllRefs(_, _)
\* The context references of the stored flows, in the order of IdNames:
\* of each flow its context, then the results of its subFlows (0: none).
AllRefs(w, i) ==
  IF i > Len(IdNames) THEN <<>>
  ELSE (IF IdNames[i] \in DOMAIN w.store
        THEN <<w.store[IdNames[i]].ctx>>
             \o [k \in 1..Len(w.arrays[IdNames[i]].subFlows) |->
                   w.arrays[IdNames[i]].subFlows[k].result]
        ELSE <<>>)
       \o AllRefs(w, i + 1)

\* The heap after garbage collection and compaction: the objects no stored
\* flow reaches are gone, and the context objects are numbered in the order
\* in which AllRefs meets them.  Heap addresses are not observable, so this
\* changes nothing a caller can see.
Collect(w) ==
  LET refs == SelectSeq(AllRefs(w, 1), LAMBDA c : c # 0)
      live == {refs[k] : k \in 1..Len(refs)}
      first(c) == CHOOSE k \in 1..Len(refs) :
                    refs[k] = c /\ \A m \in 1..(k - 1) : refs[m] # c
      rank(c) == IF c = 0 THEN 0
                 ELSE Cardinality({refs[m] : m \in 1..first(c)})
      at(n) == CHOOSE c \in live : rank(c) = n
  IN [w EXCEPT
        !.store = [f \in DOMAIN w.store |->
                     [w.store[f] EXCEPT !.ctx = rank(@)]],
        !.arrays = [f \in DOMAIN w.store |->
                      [w.arrays[f] EXCEPT !.subFlows =
                         [k \in 1..Len(@) |-> [@[k] EXCEPT !.result = rank(@)]]]],
        !.taken = [f \in DOMAIN w.store |-> w.taken[f]],
        !.ctxs = [n \in 1..Cardinality(live) |-> w.ctxs[at(n)]]]

startSubFlowRecordsFirst(w, parentFlowId, subEngine, opts, uuid, raises) ==
  IF ~exists(w, parentFlowId) THEN Raise(w, "NotFound")
  ELSE LET parentFlow == w.store[parentFlowId]
           flowId == IF opts.flowId # NoId THEN opts.flowId ELSE uuid
           w1 == save([w EXCEPT !.arrays[parentFlowId].subFlows =
                         Append(@, [subFlowId |-> flowId, defId |-> subEngine,
                                    status |-> "active", result |-> 0,
                                    completedAt |-> FALSE])],
                      parentFlow)
       IN start(w1, subEngine,
                [opts EXCEPT !.parentFlowId = parentFlowId,
                             !.ctxRef = IF opts.hasContext THEN 0
                                        ELSE parentFlow.ctx],
                uuid, raises)

\* FlowEngine.startSubFlow.  The sub-flow shares the parent's context
\* object unless options.context is given.
startSubFlow(w, parentFlowId, subEngine, opts, uuid, raises) ==
  IF ~exists(w, parentFlowId) THEN Raise(w, "NotFound")
  ELSE LET parentFlow == w.store[parentFlowId]
           r == start(w, subEngine,
                      [opts EXCEPT !.parentFlowId = parentFlowId,
                                   !.ctxRef = IF opts.hasContext THEN 0
                                              ELSE parentFlow.ctx],
                      uuid, raises)
       IN IF r.raised # "" THEN r
          ELSE [r EXCEPT !.w =
                  save([r.w EXCEPT !.arrays[parentFlowId].subFlows =
                          Append(@, [subFlowId |-> r.ret, defId |-> subEngine,
                                     status |-> "active", result |-> 0,
                                    completedAt |-> FALSE])],
                       parentFlow)]

\* Array.prototype.find on subFlows by subFlowId: an index, 0 when none.
FindRef(subFlows, subFlowId) ==
  IF \E i \in 1..Len(subFlows) : subFlows[i].subFlowId = subFlowId
  THEN CHOOSE i \in 1..Len(subFlows) :
         /\ subFlows[i].subFlowId = subFlowId
         /\ \A j \in 1..(i - 1) : subFlows[j].subFlowId # subFlowId
  ELSE 0

waitForSubFlowNoTimeout(w, parentFlowId, subFlowId, timedOut) ==
  IF ~exists(w, subFlowId) THEN Raise(w, "NotFound")
  ELSE LET subFlow == w.store[subFlowId]
       IN IF subFlow.status \in {"completed", "failed"}
          THEN LET i == IF exists(w, parentFlowId)
                        THEN FindRef(w.arrays[parentFlowId].subFlows, subFlowId)
                        ELSE 0
               IN IF i = 0 THEN [Return(w) EXCEPT !.ret = subFlowId]
                  ELSE [Return(save(
                          [w EXCEPT !.arrays[parentFlowId].subFlows[i] =
                             [@ EXCEPT !.status = subFlow.status,
                                       !.completedAt = TRUE,
                                       !.result = IF subFlow.status = "completed"
                                                  THEN subFlow.ctx ELSE @]],
                          w.store[parentFlowId]))
                        EXCEPT !.ret = subFlowId]
          ELSE Raise(w, "polling")

\* FlowEngine.waitForSubFlow, one round of its loop: timedOut is whether
\* the timeout has passed when the sub-flow is found unfinished.  "polling"
\* is no result: the loop sleeps and goes round again.
waitForSubFlow(w, parentFlowId, subFlowId, timedOut) ==
  IF ~exists(w, subFlowId) THEN Raise(w, "NotFound")
  ELSE LET subFlow == w.store[subFlowId]
       IN IF subFlow.status \in {"completed", "failed"}
          THEN LET i == IF exists(w, parentFlowId)
                        THEN FindRef(w.arrays[parentFlowId].subFlows, subFlowId)
                        ELSE 0
               IN IF i = 0 THEN [Return(w) EXCEPT !.ret = subFlowId]
                  ELSE [Return(save(
                          [w EXCEPT !.arrays[parentFlowId].subFlows[i] =
                             [@ EXCEPT !.status = subFlow.status,
                                       !.completedAt = TRUE,
                                       !.result = IF subFlow.status = "completed"
                                                  THEN subFlow.ctx ELSE @]],
                          w.store[parentFlowId]))
                        EXCEPT !.ret = subFlowId]
          ELSE IF timedOut THEN Raise(w, "Timeout")
          ELSE Raise(w, "polling")


(***************************************************************************)
(* The calls.  Every action is one call of an operation, made when no      *)
(* other call is in flight, with its arguments and the behaviour of the    *)
(* user code it runs drawn from small sets.                                *)
(***************************************************************************)
NoSnap == [flowId |-> NoId]

Init ==
  /\ store = <<>>
  /\ arrays = <<>>
  /\ ctxs = <<>>
  /\ keys = <<>>
  /\ taken = <<>>
  /\ middlewares = <<>>
  /\ last = [op |-> "init", flowId |-> NoId, key |-> NoKey, raised |-> "",
             ret |-> NoId, success |-> FALSE, noop |-> FALSE,
             fromState |-> Single(""), toState |-> Single(""),
             compensated |-> FALSE, log |-> <<>>, comps |-> <<>>,
             compsRaised |-> <<>>, arg |-> FALSE, error |-> <<>>,
             wasCompensated |-> FALSE]
  /\ calls = <<>>
  /\ snap = NoSnap

\* What `last` records of a call: the operation, its flowId and key
\* arguments, and what it gave back.
LastOf(op, flowId, key, r) ==
  [op |-> op, flowId |-> flowId, key |-> key, raised |-> r.raised,
   ret |-> r.ret, success |-> r.success, noop |-> r.noop,
   fromState |-> r.fromState, toState |-> r.toState,
   compensated |-> r.compensated, log |-> r.log, comps |-> r.comps,
   compsRaised |-> r.compsRaised, arg |-> FALSE, error |-> r.error,
   wasCompensated |-> FALSE]

\* `last` for a call whose boolean argument (cancel's triggerCompensation)
\* is arg.
WithArg(l, arg) == [l EXCEPT !.arg = arg]

\* Whether the stored flow's error says that the compensation procedure
\* has run on it: its message ends with "(compensated)".
Compensated(w, flowId) ==
  /\ exists(w, flowId)
  /\ w.store[flowId].error.message # <<>>
  /\ w.store[flowId].error.message[Len(w.store[flowId].error.message)]
       = "(compensated)"

\* The storage and the heap become those of w.
Becomes(w) ==
  /\ store' = w.store
  /\ arrays' = w.arrays
  /\ ctxs' = w.ctxs
  /\ keys' = w.keys
  /\ taken' = w.taken

\* generateUUID: the first id of the pool that nothing uses, "" when the
\* pool is used up.
Uuid(w, pool) ==
  IF FreshIds(w, pool) = {} THEN NoId
  ELSE IdNames[CHOOSE i \in 1..Len(IdNames) :
                 /\ IdNames[i] \in FreshIds(w, pool)
                 /\ \A j \in 1..(i - 1) : IdNames[j] \notin FreshIds(w, pool)]

\* The callers of a specification, c, are a record of what they do:
\*   pool     the flow ids they name (and generateUUID draws from)
\*   ids      the values of options.flowId they start flows with
\*   parents  the flows they start sub-flows of and wait for sub-flows of
\*   engines  the engines they start flows on
\*   events   the events they send
\*   keys     the idempotency keys they use
\*   marks    the entries they put into contexts and options.data
\*   faults   whether their hooks and compensation actions may raise
\*   comps    how many compensation actions they record on one flow
\* The hook outcomes of a call when the user code never raises.
NoFaults(env) ==
  /\ env.cr = {}
  /\ \A i \in DOMAIN env.oc : \A j \in DOMAIN env.oc[i] : env.oc[i][j] = "ok"

Start(c) ==
  \E engine \in c.engines, flowId \in c.ids,
     key \in c.keys \cup {NoKey}, context \in SUBSET c.marks,
     raises \in {FALSE, c.faults} :
    LET uuid == Uuid(World, c.pool)
        r == start(World, engine,
                   [flowId |-> flowId, key |-> key, context |-> context,
                    hasContext |-> TRUE, ctxRef |-> 0, parentFlowId |-> NoId],
                   uuid, raises)
    IN /\ flowId # NoId \/ uuid # NoId \/ r.noop
       /\ Becomes(Collect(r.w))
       /\ last' = WithArg(LastOf("start", flowId, key, r), raises)
       /\ UNCHANGED <<middlewares, calls, snap>>

\* The middlewares of the engine object a call goes through: use() has
\* registered them on the engine "order" only.
MiddlewaresOf(engine) == IF engine = "order" THEN middlewares ELSE <<>>

\* The history variables after an execute call that gave r: the key has
\* been used by a call that returned, the flow has taken one more
\* transition if the call reports one.
Noted(r, flowId, key) ==
  LET w1 == IF r.raised = "" /\ key # NoKey
            THEN [r.w EXCEPT !.keys[key].done = TRUE] ELSE r.w
  IN IF r.success /\ ~r.noop
     THEN [w1 EXCEPT !.taken[flowId] = @ + 1] ELSE w1

Execute(c) ==
  \E flowId \in c.pool, event \in c.events, key \in c.keys \cup {NoKey},
     data \in SUBSET c.marks,
     via \in (IF middlewares = <<>> THEN {"order"} ELSE Engines),
     targetRegion \in TargetRegions :
    LET opts == [event |-> event, key |-> key, data |-> data,
                 targetRegion |-> targetRegion]
    IN /\ targetRegion # NoRegion =>
            exists(World, flowId) /\ store[flowId].currentState.list
       /\ \E env \in CoreEnvs(World, flowId, opts) :
            LET r == execute(World, MiddlewaresOf(via), flowId, opts, env)
            IN /\ c.faults \/ NoFaults(env)
               /\ Becomes(Noted(r, flowId, key))
               /\ last' = LastOf("execute", flowId, key, r)
               /\ UNCHANGED <<middlewares, calls, snap>>

Pause(c) ==
  \E flowId \in c.pool :
    LET r == pause(World, flowId)
    IN /\ Becomes(r.w)
       /\ last' = LastOf("pause", flowId, NoKey, r)
       /\ UNCHANGED <<middlewares, calls, snap>>

Resume(c) ==
  \E flowId \in c.pool :
    LET r == resume(World, flowId)
    IN /\ Becomes(r.w)
       /\ last' = LastOf("resume", flowId, NoKey, r)
       /\ UNCHANGED <<middlewares, calls, snap>>

Cancel(c) ==
  \E flowId \in c.pool, triggerCompensation \in BOOLEAN :
    \E raisers \in (IF triggerCompensation /\ c.faults
                    THEN SUBSET ActionsOn(World, flowId) ELSE {{}}) :
      LET r == cancel(World, flowId, triggerCompensation, raisers)
      IN /\ Becomes(r.w)
         /\ last' = [WithArg(LastOf("cancel", flowId, NoKey, r),
                             triggerCompensation)
                       EXCEPT !.wasCompensated = Compensated(World, flowId)]
         /\ UNCHANGED <<middlewares, calls, snap>>

\* The i-th action recorded on a flow is CompNames[i].
RecordCompensation(c) ==
  \E flowId \in c.pool :
    LET n == IF exists(World, flowId)
             THEN Len(arrays[flowId].compensations) ELSE 0
        r == recordCompensation(World, flowId, CompNames[n + 1])
    IN /\ exists(World, flowId) => n < c.comps
       /\ Becomes(r.w)
       /\ last' = LastOf("recordCompensation", flowId, NoKey, r)
       /\ UNCHANGED <<middlewares, calls, snap>>

Delete(c) ==
  \E flowId \in c.pool :
    /\ ~OnCycle(World, flowId)
    /\ Becomes(Collect(delete(World, flowId)))
    /\ last' = LastOf("delete", flowId, NoKey, Return(World))
    /\ UNCHANGED <<middlewares, calls, snap>>

StartSubFlow(c) ==
  \E parentFlowId \in c.parents, subEngine \in c.engines,
     flowId \in c.ids, key \in c.keys \cup {NoKey},
     hasContext \in BOOLEAN, raises \in {FALSE, c.faults} :
    LET uuid == Uuid(World, c.pool)
        r == startSubFlow(World, parentFlowId, subEngine,
                          [flowId |-> flowId, key |-> key, context |-> {},
                           hasContext |-> hasContext, ctxRef |-> 0,
                           parentFlowId |-> NoId],
                          uuid, raises)
    IN /\ exists(World, parentFlowId) =>
            /\ Len(arrays[parentFlowId].subFlows) < MaxSubs
            /\ flowId # NoId \/ uuid # NoId \/ r.noop
       /\ Becomes(Collect(r.w))
       /\ last' = LastOf("startSubFlow", parentFlowId, key, r)
       /\ UNCHANGED <<middlewares, calls, snap>>

WaitForSubFlow(c) ==
  \E parentFlowId \in c.parents, subFlowId \in c.pool, timedOut \in BOOLEAN :
    LET r == waitForSubFlow(World, parentFlowId, subFlowId, timedOut)
    IN /\ r.raised # "polling"
       /\ Becomes(Collect(r.w))
       /\ last' = LastOf("waitForSubFlow", parentFlowId, NoKey, r)
       /\ UNCHANGED <<middlewares, calls, snap>>

\* FlowEngine.use on the engine "order"
Use ==
  \E mw \in {"pass", "throw", "late"} :
    /\ Len(middlewares) < MaxMw
    /\ middlewares' = Append(middlewares, mw)
    /\ last' = LastOf("use", NoId, NoKey, Return(World))
    /\ UNCHANGED <<store, arrays, ctxs, keys, taken, calls, snap>>

\* FlowEngine.clearMiddleware on the engine "order"
ClearMiddleware ==
  /\ middlewares' = <<>>
  /\ last' = LastOf("clearMiddleware", NoId, NoKey, Return(World))
  /\ UNCHANGED <<store, arrays, ctxs, keys, taken, calls, snap>>

(***************************************************************************)
(* Spec: the callers name one flow id, use both engines and every event    *)
(* and no idempotency key; the calls are start, execute, pause, resume,    *)
(* cancel and recordCompensation, none overlapping another.                *)
(***************************************************************************)
One ==
  [pool |-> {IdNames[1]}, ids |-> {IdNames[1]}, engines |-> Engines,
   events |-> Events, keys |-> {}, marks |-> Marks, faults |-> TRUE,
   comps |-> MaxComps, parents |-> {}]

Next ==
  \/ Start(One)
  \/ Execute(One)
  \/ Pause(One)
  \/ Resume(One)
  \/ Cancel(One)
  \/ RecordCompensation(One)

Spec == Init /\ [][Next]_vars


(***************************************************************************)
(* Properties of the life cycle (Spec).                                    *)
(***************************************************************************)
\* The actions of a compensation stack, in recordCompensation order.
ActionsOf(compensations) ==
  [i \in 1..Len(compensations) |-> compensations[i].action]

\* C5: when an execute fails on a flow whose compensation stack is c1..cn,
\* the actions invoked are exactly cn, ..., c1, each once and in that
\* order, whichever of them raise.
C5_CompensationOrder ==
  [][(/\ last'.op = "execute"
      /\ last'.raised = ""
      /\ ~last'.success
      /\ last'.flowId \in DOMAIN store)
     => last'.comps = Reverse(ActionsOf(arrays[last'.flowId].compensations))]_vars

\* An execute failed on a flow with the stack c1, c2; c2 was invoked first
\* and raised, and c1 was invoked after it.
C5_Witness ==
  /\ last.op = "execute" /\ ~last.success
  /\ last.comps = <<CompNames[2], CompNames[1]>>
  /\ last.compsRaised = <<CompNames[2]>>

\* C6: every execution error on an active flow (no matching transition, no
\* region accepted, invalid region index, validation failure, a hook that
\* raises after the retries) comes back as a result with success = false,
\* is not raised, leaves the stored flow failed with its error set, and
\* leaves currentState and history as they were, with
\* transition.fromState = transition.toState = currentState.
C6_ErrorsAreResults ==
  [][(/\ last'.op = "execute"
      /\ last'.flowId \in DOMAIN store
      /\ store[last'.flowId].status = "active"
      /\ ~(last'.raised = "" /\ last'.success))
     => LET f == last'.flowId
        IN /\ last'.raised = ""
           /\ f \in DOMAIN store'
           /\ store'[f].status = "failed"
           /\ store'[f].error.set
           /\ store'[f].currentState = store[f].currentState
           /\ arrays'[f].history = arrays[f].history
           /\ last'.fromState = store[f].currentState
           /\ last'.toState = store[f].currentState]_vars

\* An execute has failed after a retry: the action hook ran twice and
\* raised both times, and the flow, one transition into its life, is failed.
C6_Witness ==
  /\ last.op = "execute" /\ last.raised = "" /\ ~last.success
  /\ last.log = <<"exit", "action", "exit", "action", "onError">>
  /\ last.flowId \in DOMAIN store
  /\ store[last.flowId].status = "failed"
  /\ Len(arrays[last.flowId].history) = 1

\* C7: in every stored flow, status = completed implies that currentState
\* is final: the state of a single-state flow, every region's state of a
\* parallel flow.
C7_CompletedIsFinal ==
  \A f \in DOMAIN store :
    store[f].status = "completed" =>
      \A i \in 1..Len(store[f].currentState.names) :
        isFinalState(store[f].currentState.names[i])

\* A parallel flow has completed.
C7_Witness ==
  \E f \in DOMAIN store :
    /\ store[f].status = "completed"
    /\ store[f].currentState.list
    /\ Len(store[f].currentState.names) = 2


\* C14: the status of a flow changes only along these steps: active to
\* paused by pause, paused to active by resume, active to completed by an
\* execute that reaches a final state (start creates a flow completed when
\* its initial state is final), active to failed by a failed execute, and
\* anything but completed to failed by cancel; pause on a flow that is not
\* active and resume on a flow that is not paused raise and change nothing.
\* So a completed flow keeps its status, and a failed flow never becomes
\* active, paused or completed again.
C14_StatusSteps ==
  [][/\ \A f \in DOMAIN store' \ DOMAIN store :
          /\ last'.op = "start"
          /\ store'[f].status = "completed" => isFlowComplete(store'[f].currentState)
     /\ \A f \in DOMAIN store \cap DOMAIN store' :
          store'[f].status # store[f].status =>
            LET old == store[f].status
                new == store'[f].status
            IN /\ last'.flowId = f
               /\ \/ old = "active" /\ new = "paused" /\ last'.op = "pause"
                  \/ old = "paused" /\ new = "active" /\ last'.op = "resume"
                  \/ /\ old = "active" /\ new = "completed"
                     /\ last'.op = "execute" /\ last'.success
                     /\ isFlowComplete(store'[f].currentState)
                  \/ /\ old = "active" /\ new = "failed"
                     /\ last'.op = "execute" /\ ~last'.success
                  \/ old # "completed" /\ new = "failed" /\ last'.op = "cancel"
     /\ (/\ last'.op = "pause" /\ last'.flowId \in DOMAIN store
         /\ store[last'.flowId].status # "active")
        => last'.raised # "" /\ StoreView' = StoreView
     /\ (/\ last'.op = "resume" /\ last'.flowId \in DOMAIN store
         /\ store[last'.flowId].status # "paused")
        => last'.raised # "" /\ StoreView' = StoreView
     /\ DOMAIN store \subseteq DOMAIN store']_vars

\* resume has been called on a failed flow that had moved: it raised, and
\* the flow is still failed.
C14_Witness ==
  /\ last.op = "resume" /\ last.raised = "NotPaused"
  /\ last.flowId \in DOMAIN store
  /\ store[last.flowId].status = "failed"
  /\ arrays[last.flowId].history # <<>>


\* C15: cancel(flowId, triggerCompensation = false) on a flow that is not
\* completed sets status = failed with the error message "Flow cancelled by
\* user", invokes no compensation action and leaves currentState, history
\* and context (and the compensation stack) as they were; on a completed
\* flow it raises and changes nothing.
C15_PlainCancel ==
  [][(/\ last'.op = "cancel" /\ ~last'.arg
      /\ last'.flowId \in DOMAIN store)
     => LET f == last'.flowId
        IN IF store[f].status = "completed"
           THEN last'.raised # "" /\ StoreView' = StoreView
           ELSE /\ last'.raised = ""
                /\ f \in DOMAIN store'
                /\ store'[f].status = "failed"
                /\ store'[f].error = ErrorWith(<<"Flow cancelled by user">>)
                /\ last'.comps = <<>>
                /\ ~last'.compensated
                /\ StoreView'[f] = [StoreView[f] EXCEPT !.status = "failed",
                                 !.error = ErrorWith(<<"Flow cancelled by user">>)]]_vars

\* A flow that had recorded two compensation actions has been cancelled
\* without compensation.
C15_Witness ==
  /\ last.op = "cancel" /\ ~last.arg /\ last.raised = ""
  /\ last.flowId \in DOMAIN store
  /\ Len(arrays[last.flowId].compensations) = 2
  /\ arrays[last.flowId].history # <<>>
  /\ store[last.flowId].status = "failed"


\* C16: an execute that returns a failure has compensated = TRUE exactly
\* when the flow had a recorded compensation: with an empty stack the flow
\* is failed with the failure's message as its error message, with a
\* non-empty stack it is failed with that message followed by
\* "(compensated)"; an execute that returns a success has compensated = FALSE
\* and invokes no compensation action.
C16_CompensatedIffRecorded ==
  [][(/\ last'.op = "execute" /\ last'.raised = "" /\ ~last'.noop
      /\ last'.flowId \in DOMAIN store)
     => LET f == last'.flowId
        IN IF last'.success
           THEN ~last'.compensated /\ last'.comps = <<>>
           ELSE /\ last'.compensated = (arrays[f].compensations # <<>>)
                /\ (last'.comps # <<>>) = last'.compensated
                /\ last'.error # <<>>
                /\ store'[f].status = "failed"
                /\ store'[f].error =
                     ErrorWith(IF last'.compensated
                               THEN last'.error \o <<"(compensated)">>
                               ELSE last'.error)]_vars

\* An execute failed on a flow without recorded compensations, and the flow
\* carries the bare message.
C16_Witness ==
  /\ last.op = "execute" /\ last.raised = "" /\ ~last.success
  /\ ~last.compensated
  /\ last.flowId \in DOMAIN store
  /\ arrays[last.flowId].compensations = <<>>
  /\ arrays[last.flowId].history # <<>>
  /\ store[last.flowId].error = ErrorWith(last.error)


\* Array.prototype.push only: t is s with records appended.
IsPrefix(s, t) == Len(s) <= Len(t) /\ SubSeq(t, 1, Len(s)) = s

\* C17: history and compensations are append-only: across every operation
\* of the engine on a stored flow (execute that succeeds, execute that fails
\* and compensates, cancel, pause, resume, recordCompensation) the earlier
\* records stay, in order, at the front of both lists; running the
\* compensations removes no record.
C17_AppendOnly ==
  [][\A f \in DOMAIN store :
       /\ f \in DOMAIN store'
       /\ IsPrefix(arrays[f].history, arrays'[f].history)
       /\ IsPrefix(arrays[f].compensations, arrays'[f].compensations)]_vars

\* A failed execute ran two recorded compensations of a flow with history,
\* and both records are still on the stack.
C17_Witness ==
  /\ last.op = "execute" /\ last.compensated /\ Len(last.comps) = 2
  /\ last.flowId \in DOMAIN store
  /\ Len(arrays[last.flowId].compensations) = 2
  /\ arrays[last.flowId].history # <<>>


\* C36 as claimed: over the lifetime of a flow each recorded compensation
\* action is invoked at most once.  A flow whose error says "(compensated)"
\* has had its oldest record's action invoked: a cancel on it invokes that
\* action no more.
C36_AtMostOnce ==
  [][(/\ last'.op = "cancel" /\ last'.raised = ""
      /\ last'.wasCompensated)
     => \A i \in 1..Len(last'.comps) :
          last'.comps[i] # arrays[last'.flowId].compensations[1].action]_vars

\* C36, amended: every run of the compensation procedure, by an execute
\* that fails or by cancel(flowId, true), invokes each action on the stack
\* exactly once, newest first, whether or not an earlier run has invoked
\* it, and pops no record: over the lifetime of a flow an action is invoked
\* once per run.
C36_OncePerRun ==
  [][(/\ last'.raised = ""
      /\ last'.flowId \in DOMAIN store
      /\ \/ last'.op = "execute" /\ ~last'.success
         \/ last'.op = "cancel" /\ last'.arg)
     => /\ last'.comps
             = Reverse(ActionsOf(arrays[last'.flowId].compensations))
        /\ \A i, j \in 1..Len(last'.comps) :
             last'.comps[i] = last'.comps[j] => i = j
        /\ arrays'[last'.flowId].compensations
             = arrays[last'.flowId].compensations]_vars

\* cancel(flowId, true) on a flow that a compensation run had already
\* failed has invoked the actions of its stack again.
C36_Witness ==
  /\ last.op = "cancel" /\ last.raised = "" /\ last.arg
  /\ last.wasCompensated
  /\ last.comps # <<>>
  /\ last.comps = Reverse(ActionsOf(arrays[last.flowId].compensations))


(***************************************************************************)
(* SpecReplay: the calls of Spec by callers that also use the idempotency  *)
(* key, put nothing into contexts and record one compensation action per   *)
(* flow.                                                                   *)
(***************************************************************************)
Replayers ==
  [pool |-> {IdNames[1]}, ids |-> {IdNames[1]}, engines |-> Engines,
   events |-> Events, keys |-> Keys, marks |-> {}, faults |-> TRUE,
   comps |-> 1, parents |-> {}]

NextReplay ==
  \/ Start(Replayers)
  \/ Execute(Replayers)
  \/ Pause(Replayers)
  \/ Resume(Replayers)
  \/ Cancel(Replayers)
  \/ RecordCompensation(Replayers)

SpecReplay == Init /\ [][NextReplay]_vars

\* C1: under non-overlapping start/execute/pause/resume/cancel/
\* recordCompensation calls, the history of every stored flow has exactly
\* one record per successful transition taken (no-op replays and failed
\* executes add none), its first record starts from the initial
\* currentState, every later record starts where the previous one ended,
\* and its last record ends in currentState.
C1_HistoryChain ==
  \A f \in DOMAIN store :
    LET h == arrays[f].history
    IN /\ Len(h) = taken[f]
       /\ h # <<>> =>
            /\ h[1].from = InitialCurrentState(store[f].defId)
            /\ \A i \in 2..Len(h) : h[i].from = h[i - 1].to
            /\ h[Len(h)].to = store[f].currentState

\* A flow has taken one transition, an execute on it has then failed, and
\* the last call was a no-op replay on it.
C1_Witness ==
  /\ last.op = "execute" /\ last.raised = "" /\ last.noop
  /\ last.flowId \in DOMAIN store
  /\ Len(arrays[last.flowId].history) = 1
  /\ store[last.flowId].status = "failed"
  /\ store[last.flowId].error.message[1] # "Flow cancelled by user"


(***************************************************************************)
(* SpecMw: the engine "order" with its middleware chain.  The callers name *)
(* one flow id; the calls are start, execute, pause, cancel, delete, use   *)
(* and clearMiddleware, none overlapping another.                          *)
(***************************************************************************)
Order ==
  [pool |-> {IdNames[1]}, ids |-> {IdNames[1]}, engines |-> {"order"},
   events |-> {"SUBMIT", "APPROVE", "NOPE"}, keys |-> Keys, marks |-> Marks,
   faults |-> TRUE, comps |-> 0, parents |-> {}]

NextMw ==
  \/ Start(Order)
  \/ Execute(Order)
  \/ Pause(Order)
  \/ Cancel(Order)
  \/ Delete(Order)
  \/ Use
  \/ ClearMiddleware

SpecMw == Init /\ [][NextMw]_vars

\* C3: once an execute carrying the key K has returned, every later
\* execute carrying K (on a flow that is in the store: the claim speaks of
\* the stored flow) returns success with transition.fromState =
\* transition.toState = currentState, runs no hook, action or middleware,
\* and leaves the stored flow as it was.
C3_ReplayIsNoOp ==
  [][(/\ last'.op = "execute"
      /\ last'.key \in DOMAIN keys
      /\ keys[last'.key].done
      /\ last'.flowId \in DOMAIN store)
     => /\ last'.raised = ""
        /\ last'.success
        /\ last'.fromState = store[last'.flowId].currentState
        /\ last'.toState = store[last'.flowId].currentState
        /\ last'.log = <<>>
        /\ StoreView' = StoreView]_vars

\* A replay has returned on a flow that has moved, through an engine with
\* a middleware registered.
C3_Witness ==
  /\ last.op = "execute" /\ last.noop
  /\ last.key \in DOMAIN keys /\ keys[last.key].done
  /\ keys[last.key].by = "execute"
  /\ middlewares # <<>>
  /\ last.flowId \in DOMAIN store
  /\ arrays[last.flowId].history # <<>>

ThroughRaisingChain ==
  /\ last'.op = "execute"
  /\ last'.flowId \in DOMAIN store
  /\ store[last'.flowId].status = "active"
  /\ last'.log # <<>>
  /\ last'.log[1] = "mw-in"
  /\ \E i \in 1..Len(middlewares) : middlewares[i] \in {"throw", "late"}

\* C11, as the specification states it: when a middleware raises during an
\* execute on an active flow, the compensation procedure runs, the stored
\* status becomes failed, and execute returns a failure result whose
\* compensated flag is true iff the flow had recorded compensations.
C11_MiddlewareFailureCompensates ==
  [][ThroughRaisingChain
     => /\ last'.raised = ""
        /\ ~last'.success
        /\ store'[last'.flowId].status = "failed"
        /\ last'.compensated
             <=> arrays[last'.flowId].compensations # <<>>]_vars

\* C11, amended: when a middleware raises during an execute on an active
\* flow, execute raises the middleware's error and returns no result, and
\* no compensation runs on account of it.  If the middleware raised before
\* calling next, the stored flow is as it was (still active).  If it raised
\* after next() returned, the stored flow is as the core step left it:
\* failed if the transition failed, one history record further if it
\* succeeded.
C11_MiddlewareErrorIsRaised ==
  [][ThroughRaisingChain
     => LET f == last'.flowId
        IN /\ last'.raised = "MiddlewareError"
           /\ IF \E i \in 1..Len(middlewares) : middlewares[i] = "throw"
              THEN /\ StoreView' = StoreView
                   /\ last'.comps = <<>>
              ELSE /\ ~last'.success =>
                        /\ store'[f].status = "failed"
                        /\ store'[f].currentState = store[f].currentState
                        /\ arrays'[f].history = arrays[f].history
                   /\ last'.success =>
                        /\ store'[f].status \in {"active", "completed"}
                        /\ Len(arrays'[f].history) = Len(arrays[f].history) + 1]_vars

\* A middleware has raised before the core step on a flow that had moved:
\* the call raised and the flow is still active.
C11_Witness ==
  /\ last.op = "execute" /\ last.raised = "MiddlewareError"
  /\ last.log = <<"mw-in">>
  /\ last.flowId \in DOMAIN store
  /\ store[last.flowId].status = "active"
  /\ arrays[last.flowId].history # <<>>


\* C35: when a middleware raises without calling next, execute raises that
\* middleware's error, the core step does not run (no hook, action or
\* compensation is invoked, no later middleware is entered), and the
\* stored flow's currentState, history and status are as they were: an
\* active flow stays active.
C35_RaiseBeforeNext ==
  [][(/\ last'.op = "execute"
      /\ last'.flowId \in DOMAIN store
      /\ last'.log # <<>> /\ last'.log[1] = "mw-in"
      /\ \E i \in 1..Len(middlewares) : middlewares[i] = "throw")
     => LET f == last'.flowId
        IN /\ last'.raised = "MiddlewareError"
           /\ ~last'.success
           /\ \A i \in 1..Len(last'.log) : last'.log[i] = "mw-in"
           /\ \E k \in 1..Len(middlewares) :
                /\ middlewares[k] = "throw" /\ Len(last'.log) = k
           /\ last'.comps = <<>>
           /\ f \in DOMAIN store'
           /\ store'[f].currentState = store[f].currentState
           /\ store'[f].status = store[f].status
           /\ arrays'[f].history = arrays[f].history
           /\ taken'[f] = taken[f]]_vars

\* A middleware has raised before calling next on the first event sent to
\* a new flow: the call raised, the flow is active in draft with an empty
\* history.
C35_Witness ==
  /\ last.op = "execute" /\ last.raised = "MiddlewareError"
  /\ last.key = NoKey
  /\ last.log = <<"mw-in">>
  /\ middlewares = <<"throw">>
  /\ last.flowId \in DOMAIN store
  /\ store[last.flowId].status = "active"
  /\ store[last.flowId].currentState = Single("draft")
  /\ arrays[last.flowId].history = <<>>


\* C38, as the claim states it: an execute carrying a key that is not
\* bound, when it raises (flow not found, flow not active, a middleware
\* that raises before the core step), leaves the key unbound.
C38_RaisedLeavesUnbound ==
  [][(/\ last'.op = "execute"
      /\ last'.key # NoKey
      /\ last'.key \notin DOMAIN keys
      /\ last'.raised # "")
     => last'.key \notin DOMAIN keys']_vars

\* C38, amended: an execute carrying a key that is not bound binds it to
\* its flowId before the flow is loaded and before any middleware runs, so
\* the key is bound after the call also when the call raises; and an
\* execute carrying a bound key on a stored flow returns the no-op success
\* and leaves the stored flow as it was, whatever became of the call that
\* bound the key.
C38_BoundThoughRaised ==
  [][last'.op = "execute" /\ last'.key # NoKey
     => IF last'.key \notin DOMAIN keys
        THEN /\ last'.key \in DOMAIN keys'
             /\ keys'[last'.key].flowId = last'.flowId
             /\ keys'[last'.key].by = "execute"
        ELSE last'.flowId \in DOMAIN store
             => /\ last'.raised = "" /\ last'.success /\ last'.noop
                /\ last'.log = <<>>
                /\ StoreView' = StoreView]_vars

\* An execute has returned the no-op success on an active flow that has
\* taken no transition, on account of a key that an execute had bound
\* while a middleware that raises was registered or the flow was away.
C38_Witness ==
  /\ last.op = "execute" /\ last.raised = "" /\ last.noop
  /\ last.key \in DOMAIN keys
  /\ keys[last.key].by = "execute" /\ keys[last.key].was = ""
  /\ last.flowId \in DOMAIN store
  /\ store[last.flowId].status = "active"
  /\ store[last.flowId].currentState = Single("draft")
  /\ arrays[last.flowId].history = <<>>
  /\ taken[last.flowId] = 0


(***************************************************************************)
(* SpecKeys: start keys across flows and engines.  The callers name the    *)
(* ids of FlowIds, start flows on both engines with an id of their own or  *)
(* a generated one, send SUBMIT and delete flows.                          *)
(***************************************************************************)
Starters ==
  [pool |-> FlowIds, ids |-> FlowIds \cup {NoId}, engines |-> Engines,
   events |-> {"SUBMIT"}, keys |-> Keys, marks |-> {}, faults |-> FALSE,
   comps |-> 0, parents |-> {}]

NextKeys ==
  \/ Start(Starters)
  \/ Execute(Starters)
  \/ Delete(Starters)

SpecKeys == Init /\ [][NextKeys]_vars

\* C4: once start has bound the key K to a flow, every later start with K,
\* whatever context or flowId it supplies and whichever engine it goes
\* through, returns the flow with the same flowId, creates no flow, runs no
\* onEntry hook and leaves the stored flows as they were.
C4_StartReplay ==
  [][(/\ last'.op = "start"
      /\ last'.key \in DOMAIN keys
      /\ keys[last'.key].by = "start")
     => /\ last'.raised = ""
        /\ last'.ret = keys[last'.key].flowId
        /\ DOMAIN store' = DOMAIN store
        /\ last'.log = <<>>
        /\ StoreView' = StoreView]_vars

\* A start with a key that a start had bound has created a flow and bound
\* the key again: the flow the key was bound to had been deleted.
C4_Rebound ==
  /\ last.op = "start" /\ last.raised = "" /\ ~last.noop
  /\ last.key \in DOMAIN keys
  /\ keys[last.key].was = "start"
  /\ last.ret \in DOMAIN store

\* C27: start keys and execute keys are two namespaces and execute keys are
\* recorded per flow: an execute is a no-op on account of its key only when
\* an execute on the same flow recorded that key, and a start returns an
\* existing flow on account of its key only when a start bound that key.
C27_KeysApart ==
  [][/\ (last'.op = "execute" /\ last'.noop)
          => /\ last'.key \in DOMAIN keys
             /\ keys[last'.key].by = "execute"
             /\ keys[last'.key].flowId = last'.flowId
     /\ (last'.op = "start" /\ last'.noop)
          => /\ last'.key \in DOMAIN keys
             /\ keys[last'.key].by = "start"]_vars

\* An execute has been a no-op on account of a key that a start had bound.
C27_StartKeyStopsExecute ==
  /\ last.op = "execute" /\ last.noop /\ last.success
  /\ last.key \in DOMAIN keys
  /\ keys[last.key].by = "start"

\* An execute on one flow has been a no-op on account of a key that an
\* execute on another flow had recorded.
ExecuteKeyCrossesFlows ==
  /\ last.op = "execute" /\ last.noop
  /\ last.key \in DOMAIN keys
  /\ keys[last.key].by = "execute"
  /\ keys[last.key].flowId # last.flowId

\* A start has returned an existing flow on account of a key that an
\* execute had recorded.
ExecuteKeyStopsStart ==
  /\ last.op = "start" /\ last.noop
  /\ last.key \in DOMAIN keys
  /\ keys[last.key].by = "execute"

\* C28: idempotency keys are write-once: whatever the calls made, a key
\* maps to the flowId it was first bound to.
C28_WriteOnce ==
  \A k \in DOMAIN keys : keys[k].flowId = keys[k].first

\* A start has bound a key to another flow than the one the key was first
\* bound to, which has been deleted.
C28_Remapped ==
  /\ last.op = "start" /\ last.raised = "" /\ ~last.noop
  /\ last.key \in DOMAIN keys
  /\ keys[last.key].flowId = last.ret
  /\ keys[last.key].first # last.ret
  /\ keys[last.key].first \notin DOMAIN store

(***************************************************************************)
(* SpecMulti: parent flows and sub-flows in one store.  The callers name   *)
(* the ids of FlowIds and use the engine "order" with hooks that do not    *)
(* raise; the calls are those of Spec and delete, startSubFlow and         *)
(* waitForSubFlow, none overlapping another.                               *)
(***************************************************************************)
Many ==
  [pool |-> FlowIds, ids |-> FlowIds \cup {NoId}, engines |-> {"order"},
   events |-> {"SUBMIT", "APPROVE"}, keys |-> {}, marks |-> {},
   faults |-> FALSE, comps |-> 0, parents |-> {IdNames[1]}]

NextMulti ==
  \/ Start(Many)
  \/ Execute(Many)
  \/ Pause(Many)
  \/ Resume(Many)
  \/ Cancel(Many)
  \/ RecordCompensation(Many)
  \/ Delete(Many)
  \/ StartSubFlow(Many)
  \/ WaitForSubFlow(Many)

SpecMulti == Init /\ [][NextMulti]_vars


\* The operational errors: what a call raises, rather than returns.
OperationalErrors ==
  {"Duplicate", "NotFound", "NotActive", "NotPaused", "CannotCancel", "Timeout"}

\* C10: whenever start raises Duplicate, or execute, pause, resume, cancel,
\* recordCompensation or startSubFlow raise NotFound or NotActive (for
\* resume and cancel: the status the call does not accept), or
\* waitForSubFlow raises Timeout, every stored flow is the same before and
\* after the call.
C10_RaisingKeepsFlows ==
  [][last'.raised \in OperationalErrors => StoreView' = StoreView]_vars

\* waitForSubFlow has timed out on a sub-flow that its parent lists.
C10_Witness ==
  /\ last.op = "waitForSubFlow" /\ last.raised = "Timeout"
  /\ last.flowId \in DOMAIN store
  /\ arrays[last.flowId].subFlows # <<>>


(***************************************************************************)
(* SpecOverlap: MaxCalls calls of execute(f1, {event: SUBMIT,              *)
(* idempotencyKey: k1}) in flight at once on a flow that start has just    *)
(* created.  A call runs from one await to the next in one step; between   *)
(* two steps of a call the steps of the other calls may run.  The storage  *)
(* methods do their work when they are called, so a step ends with the     *)
(* storage access whose result the call then awaits.                       *)
(***************************************************************************)
TheFlow == IdNames[1]
TheKey == "k1"
TheOpts == [event |-> "SUBMIT", key |-> TheKey, data |-> {},
            targetRegion |-> NoRegion]

NoTransition ==
  [success |-> FALSE, fromState |-> Single(""), toState |-> Single(""),
   error |-> <<>>, log |-> <<>>]

\* A call that has not begun.  pc is where the call stands, existing what
\* getFlowIdByIdempotencyKey gave it, fs the snapshot get gave it, tr its
\* transition; raised, success, noop and currentState are what it gave back
\* (currentState: that of result.state).
NewCall ==
  [pc |-> "idle", existing |-> NoId, found |-> FALSE,
   fs |-> [flowId |-> NoId], tr |-> NoTransition,
   raised |-> "", success |-> FALSE, noop |-> FALSE,
   currentState |-> Single("")]

\* The store after start({flowId: f1}) on the engine "order".
Started ==
  start([store |-> <<>>, arrays |-> <<>>, ctxs |-> <<>>, keys |-> <<>>,
         taken |-> <<>>],
        "order",
        [flowId |-> TheFlow, key |-> NoKey, context |-> {},
         hasContext |-> FALSE, ctxRef |-> 0, parentFlowId |-> NoId],
        NoId, FALSE)

InitOverlap ==
  /\ store = Started.w.store
  /\ arrays = Started.w.arrays
  /\ ctxs = Started.w.ctxs
  /\ keys = Started.w.keys
  /\ taken = Started.w.taken
  /\ middlewares = <<>>
  /\ last = LastOf("start", TheFlow, NoKey, Started)
  /\ calls = [i \in 1..MaxCalls |-> NewCall]
  /\ snap = NoSnap

\* execute up to its first await: the key is looked up.
ReadKey(i) ==
  /\ calls[i].pc = "idle"
  /\ calls' = [calls EXCEPT ![i] =
       [@ EXCEPT !.pc = "checked",
                 !.existing = getFlowIdByIdempotencyKey(World, TheKey)]]
  /\ UNCHANGED <<store, arrays, ctxs, keys, taken, middlewares, last, snap>>

\* execute after the lookup, with the key found bound: get(flowId).
ReplayGet(i) ==
  /\ calls[i].pc = "checked"
  /\ calls[i].existing # NoId
  /\ calls' = [calls EXCEPT ![i] =
       IF exists(World, TheFlow)
       THEN [@ EXCEPT !.pc = "replay", !.found = TRUE, !.fs = store[TheFlow]]
       ELSE [@ EXCEPT !.pc = "got", !.found = FALSE]]
  /\ UNCHANGED <<store, arrays, ctxs, keys, taken, middlewares, last, snap>>

\* execute returns the no-op success built from its snapshot.
ReplayReturn(i) ==
  /\ calls[i].pc = "replay"
  /\ calls' = [calls EXCEPT ![i] =
       [@ EXCEPT !.pc = "done", !.success = TRUE, !.noop = TRUE,
                 !.currentState = calls[i].fs.currentState]]
  /\ UNCHANGED <<store, arrays, ctxs, keys, taken, middlewares, last, snap>>

\* execute after the lookup, with the key found unbound: the key is saved.
BindKey(i) ==
  /\ calls[i].pc = "checked"
  /\ calls[i].existing = NoId
  /\ keys' = saveIdempotencyKey(World, TheKey, TheFlow, "execute").keys
  /\ calls' = [calls EXCEPT ![i] = [@ EXCEPT !.pc = "bound"]]
  /\ UNCHANGED <<store, arrays, ctxs, taken, middlewares, last, snap>>

\* executeCore up to its first await: get(flowId).
GetFlow(i) ==
  /\ calls[i].pc = "bound"
  /\ calls' = [calls EXCEPT ![i] =
       IF exists(World, TheFlow)
       THEN [@ EXCEPT !.pc = "got", !.found = TRUE, !.fs = store[TheFlow]]
       ELSE [@ EXCEPT !.pc = "got", !.found = FALSE]]
  /\ UNCHANGED <<store, arrays, ctxs, keys, taken, middlewares, last, snap>>

\* executeCore from the snapshot to the await of executeTransition: the
\* checks, which may raise, and the transition from the snapshot's state.
Transit(i) ==
  /\ calls[i].pc = "got"
  /\ IF ~calls[i].found
     THEN calls' = [calls EXCEPT ![i] =
                      [@ EXCEPT !.pc = "done", !.raised = "NotFound"]]
     ELSE IF calls[i].fs.status # "active"
     THEN calls' = [calls EXCEPT ![i] =
                      [@ EXCEPT !.pc = "done", !.raised = "NotActive"]]
     ELSE \E oc \in ExecOutcomes(calls[i].fs.currentState, TheOpts.event,
                                 TheOpts.targetRegion, ctxs[calls[i].fs.ctx]) :
            calls' = [calls EXCEPT ![i] =
                        [@ EXCEPT !.pc = "moved",
                                  !.tr = Dispatch(calls[i].fs, TheOpts,
                                                  ctxs[calls[i].fs.ctx], oc).tr]]
  /\ UNCHANGED <<store, arrays, ctxs, keys, taken, middlewares, last, snap>>

\* executeCore after the transition: the history record is pushed and the
\* snapshot saved, or the failure handed to compensate and the snapshot
\* saved; the call returns its result.
Commit(i) ==
  /\ calls[i].pc = "moved"
  /\ LET c == calls[i]
         pr == [thrown |-> <<>>, tr |-> c.tr]
     IN IF c.tr.success
        THEN LET a == Advance(World, c.fs, pr, TheOpts.event)
             IN /\ Becomes([save(a.w, a.fs) EXCEPT !.taken[TheFlow] = @ + 1])
                /\ calls' = [calls EXCEPT ![i] =
                     [@ EXCEPT !.pc = "done", !.success = TRUE,
                               !.currentState = a.fs.currentState]]
        ELSE LET k == compensate(World, c.fs, FailureMessage(pr), {})
             IN /\ Becomes(save(k.w, k.fs))
                /\ calls' = [calls EXCEPT ![i] =
                     [@ EXCEPT !.pc = "done", !.success = FALSE,
                               !.currentState = k.fs.currentState]]
  /\ UNCHANGED <<middlewares, last, snap>>

NextOverlap ==
  \E i \in 1..MaxCalls :
    \/ ReadKey(i)
    \/ ReplayGet(i)
    \/ ReplayReturn(i)
    \/ BindKey(i)
    \/ GetFlow(i)
    \/ Transit(i)
    \/ Commit(i)

SpecOverlap == InitOverlap /\ [][NextOverlap]_vars

\* C2: when the overlapping execute calls with the same event and key have
\* all returned, every one of them has returned success with
\* currentState = processing, and the stored flow's history has exactly
\* one record.
C2_OnceUnderOverlap ==
  (\A i \in 1..MaxCalls : calls[i].pc = "done")
  => /\ \A i \in 1..MaxCalls :
          /\ calls[i].raised = "" /\ calls[i].success
          /\ calls[i].currentState = Single("processing")
     /\ Len(arrays[TheFlow].history) = 1

\* Every call has returned success with currentState = processing, and the
\* history has one record per call: each call found the key unbound and the
\* flow in draft.
C2_RecordPerCall ==
  /\ \A i \in 1..MaxCalls :
       /\ calls[i].pc = "done" /\ calls[i].success
       /\ calls[i].currentState = Single("processing")
  /\ Len(arrays[TheFlow].history) = MaxCalls


(***************************************************************************)
(* SpecClient: a client of the storage beside the engine.  It takes a      *)
(* snapshot with get (list gives the same copies), changes the snapshot,   *)
(* and may save it.  The engine calls are start and execute on one flow;   *)
(* no flow is deleted, so the snapshot's arrays are those of               *)
(* arrays[snap.flowId].                                                    *)
(***************************************************************************)
Client ==
  [pool |-> {IdNames[1]}, ids |-> {IdNames[1]}, engines |-> {"order"},
   events |-> {"SUBMIT", "APPROVE"}, keys |-> {}, marks |-> {},
   faults |-> FALSE, comps |-> 0, parents |-> {}]

\* What the client writes into a snapshot.
Foreign == "x"

\* InMemoryStateStorage.get (and each element of list): {...state}, whose
\* history, compensations, subFlows and context are the stored objects.
ClientGet ==
  \E flowId \in Client.pool :
    /\ exists(World, flowId)
    /\ snap' = store[flowId]
    /\ last' = LastOf("get", flowId, NoKey, Return(World))
    /\ UNCHANGED <<store, arrays, ctxs, keys, taken, middlewares, calls>>

\* The client changes one field of its snapshot, once: it adds an entry to
\* the context, pushes an element on one of the arrays, or assigns status.
ClientMutate ==
  /\ snap.flowId # NoId
  /\ \E field \in {"context", "history", "compensations", "subFlows", "status"} :
       /\ CASE field = "context" ->
                 /\ Foreign \notin ctxs[snap.ctx]
                 /\ ctxs' = [ctxs EXCEPT ![snap.ctx] = @ \cup {Foreign}]
                 /\ UNCHANGED <<arrays, snap>>
            [] field = "history" ->
                 /\ \A i \in 1..Len(arrays[snap.flowId].history) :
                      arrays[snap.flowId].history[i].event # Foreign
                 /\ arrays' = [arrays EXCEPT ![snap.flowId].history =
                      Append(@, [from |-> Single(Foreign), to |-> Single(Foreign),
                                 event |-> Foreign])]
                 /\ UNCHANGED <<ctxs, snap>>
            [] field = "compensations" ->
                 /\ \A i \in 1..Len(arrays[snap.flowId].compensations) :
                      arrays[snap.flowId].compensations[i].action # Foreign
                 /\ arrays' = [arrays EXCEPT ![snap.flowId].compensations =
                      Append(@, [action |-> Foreign])]
                 /\ UNCHANGED <<ctxs, snap>>
            [] field = "subFlows" ->
                 /\ arrays[snap.flowId].subFlows = <<>>
                 /\ arrays' = [arrays EXCEPT ![snap.flowId].subFlows =
                      Append(@, [subFlowId |-> Foreign, defId |-> Foreign,
                                 status |-> "active", result |-> 0,
                                    completedAt |-> FALSE])]
                 /\ UNCHANGED <<ctxs, snap>>
            [] field = "status" ->
                 /\ snap.status # "paused"
                 /\ snap' = [snap EXCEPT !.status = "paused"]
                 /\ UNCHANGED <<arrays, ctxs>>
       /\ last' = [LastOf("mutate", snap.flowId, NoKey, Return(World))
                     EXCEPT !.ret = field]
  /\ UNCHANGED <<store, keys, taken, middlewares, calls>>

\* The client saves its snapshot: InMemoryStateStorage.save.  A stale
\* snapshot takes the flow back, so the client stops saving once the
\* history has MaxHistory records.
ClientSave ==
  /\ snap.flowId # NoId
  /\ Len(arrays[snap.flowId].history) < MaxHistory
  /\ Becomes(save(World, snap))
  /\ last' = LastOf("save", snap.flowId, NoKey, Return(World))
  /\ UNCHANGED <<middlewares, calls, snap>>

NextClient ==
  \/ Start(Client)
  \/ Execute(Client)
  \/ ClientGet
  \/ ClientMutate
  \/ ClientSave

SpecClient == Init /\ [][NextClient]_vars

\* C8: snapshots are independent of the store: changing the context,
\* history, compensations or subFlows of a snapshot that get returned, or
\* of an object after it was saved, without calling save, changes nothing
\* of what get returns afterwards.
C8_SnapshotsIndependent ==
  [][last'.op = "mutate" => StoreView' = StoreView]_vars

\* The client has pushed a record on its snapshot's history, and the stored
\* flow's history ends with that record.
C8_SharedHistory ==
  /\ last.op = "mutate" /\ last.ret = "history"
  /\ snap.flowId \in DOMAIN store
  /\ View(snap.flowId).history # <<>>
  /\ View(snap.flowId).history[Len(View(snap.flowId).history)].event = Foreign


(***************************************************************************)
(* SpecMachine: StateMachine.executeTransition applied to every state of   *)
(* the definition and a name that is none, every event, every context and  *)
(* every course the hooks may take.  calls holds the call: its arguments   *)
(* currentState, event and context, the outcomes of its attempts and       *)
(* whether onError raises; last holds what it returned.                    *)
(***************************************************************************)
MachineStates == StateNames \cup {"ghost"}

MachineEvents == Events \cup {"PICK", "JUMP"}

\* The call `call` of executeTransition has returned r.
Transitioned(call, r) ==
  /\ calls' = call
  /\ last' = [op |-> "executeTransition", success |-> r.success,
              fromState |-> r.fromState, toState |-> r.toState,
              error |-> r.error, log |-> r.log]
  /\ UNCHANGED <<store, arrays, ctxs, keys, taken, middlewares, snap>>

\* onErrorRaises: whether config.onError raises when it is called; the
\* catch around the call swallows it, so nothing depends on it.
ExecuteTransition ==
  \E state \in MachineStates, on \in MachineEvents,
     context \in SUBSET Marks, onErrorRaises \in BOOLEAN :
    \E outcomes \in OutcomeSeqs(state, on, context) :
      Transitioned(<<state, on, context, outcomes, onErrorRaises>>,
                   executeTransition(state, on, context, outcomes))

NextMachine == ExecuteTransition

SpecMachine == Init /\ [][NextMachine]_vars

\* The call that `last` is the result of.
TheCall ==
  [currentState |-> calls[1], event |-> calls[2], ctx |-> calls[3],
   outcomes |-> calls[4], onErrorRaises |-> calls[5]]

\* How many times x occurs in seq.
Count(seq, x) == Cardinality({i \in 1..Len(seq) : seq[i] = x})

\* C12: for a selected transition with retry.maxAttempts = m, the sequence
\* onExit, action, validation, onEntry is attempted at most m + 1 times and
\* stops at the first attempt in which every step succeeds; if all m + 1
\* attempts fail the result is a failure with the last attempt's error and
\* toState = fromState, and onError is invoked exactly once, whether or not
\* it raises; if an attempt succeeds onError is never invoked.
C12_RetryUpTo ==
  (last.op = "executeTransition"
   /\ findTransition(TheCall.currentState, TheCall.event, TheCall.ctx) # <<>>)
  => LET c == TheCall
         tr == findTransition(c.currentState, c.event, c.ctx)[1]
         m == tr.maxAttempts
         steps == StepsOf(States[c.currentState], tr)
         oks == {i \in 1..(m + 1) : c.outcomes[i] = "ok"}
         attempts == Count(last.log, steps[1])
     IN /\ last.success <=> oks # {}
        /\ last.success =>
             /\ last.toState = Single(tr.to)
             /\ Count(last.log, "onError") = 0
             /\ steps # <<>> =>
                  /\ attempts <= m + 1
                  /\ \A i \in oks : attempts <= i
                  /\ attempts \in oks
                  /\ SubSeq(last.log, Len(last.log) - Len(steps) + 1,
                            Len(last.log)) = steps
        /\ ~last.success =>
             /\ steps # <<>>
             /\ attempts = m + 1
             /\ Count(last.log, "onError") = 1
             /\ last.log[Len(last.log)] = "onError"
             /\ last.toState = Single(c.currentState)
             /\ last.fromState = Single(c.currentState)
             /\ last.error = ErrorOf(c.outcomes[m + 1])

\* A transition with maxAttempts = 1 has failed: the first attempt in its
\* validation, the second in its action, whose error is the one returned;
\* onError was called and raised.
C12_Witness ==
  /\ last.op = "executeTransition" /\ ~last.success
  /\ TheCall.outcomes = <<"validation", "action">>
  /\ TheCall.onErrorRaises
  /\ last.error = <<"HookError">>
  /\ last.log = <<"exit", "action", "validation", "exit", "action", "onError">>

\* The own transitions of a state that the search looks at: those of an
\* atomic or parallel node.
OwnCandidates(state) ==
  IF States[state].type \in {"atomic", "parallel"}
  THEN States[state].transitions ELSE <<>>

\* A candidate is eligible when its event matches and its guard is absent
\* or returns truthy (a guard that raises does not).
Eligible(t, event, ctx) ==
  /\ t.event = event
  /\ t.guard = "none" \/ (t.guard = "hasD" /\ "d" \in ctx)

\* What `last` must be when the search goes through cands in order.
SelectsFirstOf(cands) ==
  LET c == TheCall
      E == {i \in 1..Len(cands) : Eligible(cands[i], c.event, c.ctx)}
  IN IF E = {}
     THEN /\ ~last.success
          /\ last.error = <<"NoTransition">>
          /\ last.fromState = Single(c.currentState)
          /\ last.toState = Single(c.currentState)
          /\ last.log = <<>>
     ELSE LET first == CHOOSE i \in E : \A j \in E : i <= j
          IN /\ last.error # <<"NoTransition">>
             /\ last.fromState = Single(c.currentState)
             /\ last.success => last.toState = Single(cands[first].to)
             /\ ~last.success => last.toState = Single(c.currentState)

\* C13, as the specification states it: executeTransition selects, among
\* the state's own transitions followed by the global transitions whose
\* from equals the state, the first whose event matches and whose guard is
\* absent or truthy, a guard that raises counting as no match; if none is
\* selected the result is a NoTransition failure with toState = fromState
\* and no hook run.
C13_FirstOfEqualFrom ==
  (last.op = "executeTransition" /\ TheCall.currentState \in StateNames)
  => SelectsFirstOf(OwnCandidates(TheCall.currentState)
                    \o SelectSeq(GlobalTransitions,
                                 LAMBDA t : t.from = TheCall.currentState))

\* C13, amended: the global candidates are the global transitions whose
\* from equals the state or is the part of the state's name after one of
\* its dots (the name ends with "." followed by from); the rest is as
\* stated.
C13_FirstEligible ==
  (last.op = "executeTransition" /\ TheCall.currentState \in StateNames)
  => SelectsFirstOf(OwnCandidates(TheCall.currentState)
                    \o SelectSeq(GlobalTransitions,
                         LAMBDA t : \/ t.from = TheCall.currentState
                                    \/ /\ TheCall.currentState = "sub.gate"
                                       /\ t.from = "gate"))

\* On sub.gate, JUMP with a context without the mark: the guard of the
\* state's own transition was falsy, the guard of the first global
\* transition from gate raised, and the second global transition from gate
\* was selected.
C13_Witness ==
  /\ last.op = "executeTransition" /\ last.success
  /\ TheCall.currentState = "sub.gate" /\ TheCall.event = "JUMP"
  /\ TheCall.ctx = {}
  /\ last.toState = Single("done")


\* The place of a step in the order source onExit, transition action,
\* target validation, target onEntry.
Rank(step) ==
  CASE step = "exit" -> 1 [] step = "action" -> 2
    [] step = "validation" -> 3 [] step = "entry" -> 4 [] OTHER -> 5

\* Whether the hook of a step is defined for the transition tr from node.
HasStep(node, tr, step) ==
  CASE step = "exit" -> node.onExit
    [] step = "action" -> tr.action
    [] step = "validation" -> States[tr.to].validation
    [] step = "entry" -> States[tr.to].onEntry

\* The steps invoked by the attempts: the log without the call of onError.
AttemptSteps(log) ==
  IF log # <<>> /\ log[Len(log)] = "onError"
  THEN SubSeq(log, 1, Len(log) - 1) ELSE log

\* What the order of the steps asks of the steps L invoked by a call whose
\* attempts had the given outcomes: L starts with the first defined step;
\* a step follows another in the order without skipping a defined one, or
\* is the first step again (a new attempt); after the validation of an
\* attempt that failed in it comes a new attempt or nothing.
InStepOrder(L, node, tr, outcomes) ==
  LET defined == {st \in {"exit", "action", "validation", "entry"} :
                    HasStep(node, tr, st)}
      first == CHOOSE st \in defined :
                 \A o \in defined : Rank(st) <= Rank(o)
      attemptOf(i) == Cardinality({j \in 1..i : L[j] = first})
  IN L # <<>> =>
       /\ L[1] = first
       /\ \A i \in 1..Len(L) : L[i] \in defined
       /\ \A i \in 1..(Len(L) - 1) :
            \/ /\ Rank(L[i + 1]) > Rank(L[i])
               /\ \A st \in defined :
                    ~(Rank(L[i]) < Rank(st) /\ Rank(st) < Rank(L[i + 1]))
               /\ ~(L[i] = "validation"
                    /\ outcomes[attemptOf(i)] = "validation")
            \/ /\ L[i + 1] = first
               /\ outcomes[attemptOf(i)] = L[i]

\* C32: within one attempt of a transition the steps run in the order
\* source onExit, transition action, target validation, target onEntry;
\* the target's onEntry is never invoked in an attempt whose validation
\* failed; a retry restarts from onExit, so the hooks that succeeded in the
\* failed attempt run again.
C32_StepOrder ==
  (last.op = "executeTransition"
   /\ findTransition(TheCall.currentState, TheCall.event, TheCall.ctx) # <<>>)
  => InStepOrder(AttemptSteps(last.log), States[TheCall.currentState],
                 findTransition(TheCall.currentState, TheCall.event,
                                TheCall.ctx)[1],
                 TheCall.outcomes)

\* APPROVE from processing, retried once: the first attempt failed in the
\* validation of done and did not run its onEntry, the second ran onExit
\* and the action again and then the validation and onEntry.
C32_Witness ==
  /\ last.op = "executeTransition" /\ last.success
  /\ TheCall.currentState = "processing" /\ TheCall.event = "APPROVE"
  /\ TheCall.outcomes = <<"validation", "ok">>
  /\ last.log = <<"exit", "action", "validation",
                  "exit", "action", "validation", "entry">>


(***************************************************************************)
(* SpecRegions: flows of the engine "fanout", whose initial state is the   *)
(* parallel state par.  calls holds the last execute call: its event, its  *)
(* data, its targetRegion and the outcomes of the hooks in each region;    *)
(* last holds what it returned.                                            *)
(***************************************************************************)
Regional ==
  [pool |-> {IdNames[1]}, ids |-> {IdNames[1]}, engines |-> {"fanout"},
   events |-> {"GO", "NEST", "NOPE"}, keys |-> {}, marks |-> {},
   faults |-> TRUE, comps |-> 1, parents |-> {}]

ExecuteRegions(c) ==
  \E flowId \in c.pool, event \in c.events, targetRegion \in TargetRegions :
    \E env \in CoreEnvs(World, flowId,
                        [event |-> event, key |-> NoKey, data |-> {},
                         targetRegion |-> targetRegion]) :
      /\ targetRegion # NoRegion =>
           exists(World, flowId) /\ store[flowId].currentState.list
      /\ Becomes(Noted(execute(World, <<>>, flowId,
                               [event |-> event, key |-> NoKey, data |-> {},
                                targetRegion |-> targetRegion], env),
                       flowId, NoKey))
      /\ last' = LastOf("execute", flowId, NoKey,
                        execute(World, <<>>, flowId,
                                [event |-> event, key |-> NoKey, data |-> {},
                                 targetRegion |-> targetRegion], env))
      /\ calls' = <<event, targetRegion, env.oc>>
      /\ UNCHANGED <<middlewares, snap>>

NextRegions ==
  \/ Start(Regional)
  \/ ExecuteRegions(Regional)
  \/ RecordCompensation(Regional)
  \/ Delete(Regional)

SpecRegions == Init /\ [][NextRegions]_vars

\* The execute call that calls holds.
RegionCall == [event |-> calls[1], targetRegion |-> calls[2], oc |-> calls[3]]

\* What executeTransition returns in region i (1-based) of the list cs.
RegionResult(cs, i, call, ctx) ==
  executeTransition(cs.names[i], call.event, ctx, call.oc[i])

\* The regions of cs that accept the call's event.
Accepting(cs, call, ctx) ==
  {i \in 1..Len(cs.names) : RegionResult(cs, i, call, ctx).success}

\* The flow f, in state cs before the call, is failed with message msg
\* after it and in the same state: the compensation path was taken, the
\* recorded compensations `recorded` were run.
FailedInPlace(l, after, cs, recorded, msg) ==
  /\ ~l.success
  /\ l.error = msg
  /\ l.fromState = cs /\ l.toState = cs
  /\ after.currentState = cs
  /\ after.status = "failed"
  /\ l.compensated = (recorded # <<>>)
  /\ Len(l.comps) = Len(recorded)
  /\ after.error = ErrorWith(IF recorded # <<>>
                             THEN msg \o <<"(compensated)">> ELSE msg)

\* The hooks run by the regions `attempted` of cs, in region order.
RegionLogs(cs, call, ctx, attempted) ==
  ConcatLogs([i \in 1..Len(cs.names) |->
                IF i \in attempted THEN RegionResult(cs, i, call, ctx)
                ELSE [log |-> <<>>]], 1)

\* What a broadcast call must have done to the flow that was `before`.
BroadcastDone(l, call, before, after, ctx, recorded) ==
  LET cs == before.currentState
      acc == Accepting(cs, call, ctx)
  IN /\ l.log = RegionLogs(cs, call, ctx, 1..Len(cs.names))
     /\ IF acc # {}
        THEN /\ l.success /\ ~l.compensated /\ l.comps = <<>>
             /\ after.currentState.list
             /\ Len(after.currentState.names) = Len(cs.names)
             /\ \A i \in 1..Len(cs.names) :
                  after.currentState.names[i] =
                    IF i \in acc
                    THEN findTransition(cs.names[i], call.event, ctx)[1].to
                    ELSE cs.names[i]
             /\ l.fromState = cs /\ l.toState = after.currentState
        ELSE FailedInPlace(l, after, cs, recorded,
                           <<"No region accepted the event">>)

\* C18: an execute without targetRegion on a parallel flow attempts the
\* event in every region.  If at least one region accepts, the result is a
\* success and the new currentState is a list of the same length in which
\* each accepting region holds its transition's target and every other
\* entry is unchanged; if none accepts, the result is the failure "No
\* region accepted the event", currentState is unchanged and the
\* compensation path is taken.
C18_Broadcast ==
  [][(/\ last'.op = "execute" /\ last'.raised = ""
      /\ RegionCall'.targetRegion = NoRegion
      /\ last'.flowId \in DOMAIN store
      /\ store[last'.flowId].currentState.list)
     => BroadcastDone(last', RegionCall', store[last'.flowId],
                      store'[last'.flowId],
                      ctxs[store[last'.flowId].ctx],
                      arrays[last'.flowId].compensations)]_vars

\* A broadcast GO moved region 1 from a1 to a2 while region 2, whose entry
\* hook raised, stayed in b1.
C18_Witness ==
  /\ last.op = "execute" /\ last.success
  /\ calls # <<>> /\ RegionCall.targetRegion = NoRegion
  /\ last.fromState = List(<<"a1", "b1">>)
  /\ last.toState = List(<<"a2", "b1">>)
  /\ RegionCall.oc[2] # <<>> /\ RegionCall.oc[2][1] = "entry"


\* What a call with targetRegion must have done to the flow that was
\* `before`; n is parseInt(targetRegion).
TargetedDone(l, call, before, after, ctx, recorded, n) ==
  LET cs == before.currentState
  IN IF n >= 0 /\ n < Len(cs.names)
     THEN /\ l.log = RegionLogs(cs, call, ctx, {n + 1})
          /\ IF RegionResult(cs, n + 1, call, ctx).success
             THEN /\ l.success /\ ~l.compensated /\ l.comps = <<>>
                  /\ after.currentState =
                       List([cs.names EXCEPT ![n + 1] =
                          findTransition(cs.names[n + 1], call.event, ctx)[1].to])
                  /\ l.fromState = cs /\ l.toState = after.currentState
             ELSE FailedInPlace(l, after, cs, recorded,
                                RegionResult(cs, n + 1, call, ctx).error)
     ELSE /\ l.log = <<>>
          /\ FailedInPlace(l, after, cs, recorded,
                           <<"Invalid region index: ", call.targetRegion>>)

\* C19: an execute with targetRegion = i on a parallel flow with n regions.
\* If 0 <= i < n, only region i is attempted, and on success the new
\* currentState is the old list with entry i replaced by the transition's
\* target, every other entry unchanged.  If i is out of range the call
\* returns the failure "Invalid region index", no region changes, no hook
\* of a transition runs and the flow becomes failed by the compensation
\* path.
C19_TargetRegion ==
  [][(/\ last'.op = "execute" /\ last'.raised = ""
      /\ RegionCall'.targetRegion # NoRegion
      /\ last'.flowId \in DOMAIN store
      /\ store[last'.flowId].currentState.list)
     => TargetedDone(last', RegionCall', store[last'.flowId],
                     store'[last'.flowId],
                     ctxs[store[last'.flowId].ctx],
                     arrays[last'.flowId].compensations,
                     parseInt(RegionCall'.targetRegion))]_vars

\* GO with targetRegion "1" moved the second region from b1 to b2, running
\* the entry hook of b2, and left the first in a1.
C19_Witness ==
  /\ last.op = "execute" /\ last.success
  /\ calls # <<>> /\ RegionCall.targetRegion = "1"
  /\ last.fromState = List(<<"a1", "b1">>)
  /\ last.toState = List(<<"a1", "b2">>)
  /\ last.log = <<"entry">>
  /\ last.flowId \in DOMAIN store
  /\ store[last.flowId].status = "active"

\* Every region of the list cs is in a final state.
AllFinal(cs) == \A i \in 1..Len(cs.names) : isFinalState(cs.names[i])

\* C20: a parallel flow stays active while the state of at least one region
\* is not final, and becomes completed by the successful execute after
\* which the state of every region is final, in whatever order the regions
\* are advanced.
C20_CompletedWhenAllFinal ==
  [][/\ (/\ last'.op = "execute" /\ last'.raised = "" /\ last'.success
         /\ last'.flowId \in DOMAIN store
         /\ store[last'.flowId].currentState.list)
        => /\ store[last'.flowId].status = "active"
           /\ ~AllFinal(store[last'.flowId].currentState)
           /\ store'[last'.flowId].status =
                IF AllFinal(store'[last'.flowId].currentState)
                THEN "completed" ELSE "active"
     /\ \A f \in DOMAIN store' :
          (store'[f].currentState.list /\ store'[f].status = "completed")
          => AllFinal(store'[f].currentState)]_vars

\* A flow whose second region was advanced first, then its first, is
\* completed.
C20_Witness ==
  /\ last.op = "execute" /\ last.success
  /\ last.flowId \in DOMAIN store
  /\ store[last.flowId].status = "completed"
  /\ store[last.flowId].currentState = List(<<"a2", "b2">>)
  /\ Len(arrays[last.flowId].history) = 2
  /\ arrays[last.flowId].history[1].to = List(<<"a1", "b2">>)


\* The regions of cs the call attempts (the one of targetRegion, or all)
\* whose selected transition succeeds and targets a parallel state.
NestingRegions(cs, call, ctx) ==
  {i \in 1..Len(cs.names) :
     /\ call.targetRegion # NoRegion => i = parseInt(call.targetRegion) + 1
     /\ RegionResult(cs, i, call, ctx).success
     /\ isParallelState(
          States[findTransition(cs.names[i], call.event, ctx)[1].to])}

\* C31: when a region's selected transition targets a state that is itself
\* a parallel state, under targetRegion dispatch or broadcast, the execute
\* is rejected with the failure "Nested parallel states not yet supported",
\* the region list is unchanged and the compensation path is taken.
C31_NestedParallelRejected ==
  [][(/\ last'.op = "execute" /\ last'.raised = ""
      /\ last'.flowId \in DOMAIN store
      /\ store[last'.flowId].currentState.list
      /\ NestingRegions(store[last'.flowId].currentState, RegionCall',
                        ctxs[store[last'.flowId].ctx]) # {})
     => FailedInPlace(last', store'[last'.flowId],
                      store[last'.flowId].currentState,
                      arrays[last'.flowId].compensations,
                      <<"Nested parallel states not yet supported">>)]_vars

\* An execute of NEST has succeeded and the first region entry of the
\* stored flow is the name of the parallel state par.
C31_RegionHoldsParallel ==
  /\ last.op = "execute" /\ last.success /\ ~last.compensated
  /\ calls # <<>> /\ RegionCall.event = "NEST"
  /\ last.flowId \in DOMAIN store
  /\ store[last.flowId].currentState.list
  /\ store[last.flowId].currentState.names[1] = "par"
  /\ store[last.flowId].status = "active"


(***************************************************************************)
(* SpecFamily: a parent flow and the sub-flows started under it, with      *)
(* idempotency keys and with data that execute merges into the context.    *)
(* No flow is deleted.                                                     *)
(***************************************************************************)
Family ==
  [pool |-> FlowIds, ids |-> FlowIds \cup {NoId}, engines |-> {"order"},
   events |-> {"SUBMIT"}, keys |-> Keys, marks |-> Marks,
   faults |-> FALSE, comps |-> 0, parents |-> {IdNames[1]}]

NextFamily ==
  \/ Start(Family)
  \/ Execute(Family)
  \/ StartSubFlow(Family)
  \/ WaitForSubFlow(Family)

SpecFamily == Init /\ [][NextFamily]_vars

\* f and g are a parent and its sub-flow, in either order.
Related(f, g) ==
  \/ store[g].parentFlowId = f
  \/ store[f].parentFlowId = g

\* C21: a sub-flow has a context of its own: an execute that changes the
\* context of a flow changes the stored context of neither its parent nor
\* its sub-flows.
C21_ContextsApart ==
  [][last'.op = "execute" /\ last'.flowId \in DOMAIN store
     => \A g \in DOMAIN store \ {last'.flowId} :
          Related(last'.flowId, g)
          => StoreView'[g].context = StoreView[g].context]_vars

\* An execute with data on a sub-flow started without options.context has
\* put the data into the context of its parent.
C21_SharedContext ==
  /\ last.op = "execute" /\ last.flowId \in DOMAIN store
  /\ store[last.flowId].parentFlowId \in DOMAIN store
  /\ store[last.flowId].parentFlowId # last.flowId
  /\ store[store[last.flowId].parentFlowId].ctx = store[last.flowId].ctx
  /\ "d" \in ctxs[store[last.flowId].ctx]


\* C22: for every stored flow P and every entry e of P.subFlows, while the
\* flow e.subFlowId is stored, it is a flow whose parentFlowId is
\* P.flowId, whatever options startSubFlow was given (a flowId, an
\* idempotencyKey).
C22_RefsNameChildren ==
  \A p \in DOMAIN store : \A i \in 1..Len(arrays[p].subFlows) :
    arrays[p].subFlows[i].subFlowId \in DOMAIN store
    => store[arrays[p].subFlows[i].subFlowId].parentFlowId = p

\* startSubFlow with an idempotencyKey that start had bound got the bound
\* flow back from start and listed it under the parent: a flow that has no
\* parent.
C22_ForeignRef ==
  /\ last.op = "startSubFlow" /\ last.raised = "" /\ last.key # NoKey
  /\ last.flowId \in DOMAIN store
  /\ arrays[last.flowId].subFlows # <<>>
  /\ arrays[last.flowId].subFlows[1].subFlowId = last.ret
  /\ last.ret \in DOMAIN store
  /\ store[last.ret].parentFlowId = NoId


(***************************************************************************)
(* SpecWait: one caller of waitForSubFlow(f1, subFlowId, timeoutMs) whose  *)
(* loop runs round by round while the other calls go on.  calls holds the  *)
(* call: whether it is in its loop, its subFlowId, its timeoutMs and the   *)
(* time Date.now() - startTime, both in units of the 100 ms the loop       *)
(* sleeps; timeoutMs = 0 is the absent (or zero) timeout.  A round the     *)
(* loop sleeps in adds at least one unit to the time.                      *)
(***************************************************************************)
MaxTimeout == 1    \* the largest timeoutMs, in sleeps
MaxWaited == MaxTimeout + 1   \* the clock stops once every timeout has passed

Waits ==
  [pool |-> FlowIds, ids |-> {IdNames[1], NoId}, engines |-> {"order"},
   events |-> {"SUBMIT", "APPROVE"}, keys |-> {}, marks |-> {},
   faults |-> TRUE, comps |-> 0, parents |-> {IdNames[1]}]

\* The callers of execute: they drive the sub-flows only.
SubDrivers == [Waits EXCEPT !.pool = FlowIds \ {IdNames[1]}]

\* The call of waitForSubFlow that calls holds.
Wait ==
  [looping |-> calls[1], subFlowId |-> calls[2], timeoutMs |-> calls[3],
   waited |-> calls[4]]

Waiting == calls # <<>> /\ calls[1]

\* const startTime = Date.now()
WaitBegin(c) ==
  \E subFlowId \in c.pool \ c.parents, timeoutMs \in 0..MaxTimeout :
    /\ ~Waiting
    /\ calls' = <<TRUE, subFlowId, timeoutMs, 0>>
    /\ UNCHANGED <<store, arrays, ctxs, keys, taken, middlewares, last, snap>>

\* The round of the loop gave r: it sleeps, or the call returns or raises.
Rounded(r, parentFlowId, slept) ==
  IF r.raised = "polling"
  THEN /\ calls' = [calls EXCEPT ![4] = IF @ + slept > MaxWaited
                                         THEN MaxWaited ELSE @ + slept]
       /\ UNCHANGED <<store, arrays, ctxs, keys, taken, middlewares, last, snap>>
  ELSE /\ Becomes(Collect(r.w))
       /\ last' = LastOf("waitForSubFlow", parentFlowId, NoKey, r)
       /\ calls' = [calls EXCEPT ![1] = FALSE]
       /\ UNCHANGED <<middlewares, snap>>

\* One round of the while loop.
WaitRound(c) ==
  \E parentFlowId \in c.parents, slept \in 1..2 :
    /\ Waiting
    /\ Rounded(waitForSubFlow(World, parentFlowId, Wait.subFlowId,
                              Wait.timeoutMs > 0 /\ Wait.waited > Wait.timeoutMs),
               parentFlowId, slept)

NextWait ==
  \/ Start(Waits)
  \/ StartSubFlow(Waits)
  \/ Execute(SubDrivers)
  \/ WaitBegin(Waits)
  \/ WaitRound(Waits)

\* The loop is scheduled again after every sleep.
SpecWait == Init /\ [][NextWait]_vars /\ WF_vars(WaitRound(Waits))


\* What the returning round of the call `call` must have done: l is what
\* it gave, child the sub-flow as stored, refs the parent's subFlows before
\* and refsAfter after it (<<>> when the parent is not stored), ctxAfter
\* the sub-flow's context reference after it.
WaitDone(l, call, child, refs, refsAfter, ctxAfter) ==
  /\ child.status \in {"completed", "failed"}
  /\ l.ret = call.subFlowId
  /\ FindRef(refs, call.subFlowId) # 0
     => /\ refsAfter[FindRef(refs, call.subFlowId)].status = child.status
        /\ refsAfter[FindRef(refs, call.subFlowId)].completedAt
        /\ IF child.status = "completed"
           THEN refsAfter[FindRef(refs, call.subFlowId)].result = ctxAfter
           ELSE refsAfter[FindRef(refs, call.subFlowId)].result = 0

\* C23: waitForSubFlow(parent, child, timeoutMs) returns only when the
\* child's stored status is completed or failed, and then the parent's
\* matching subFlows entry has that status, completedAt set, and the
\* child's context as result exactly if the child completed; it raises
\* Timeout only when a positive timeoutMs has passed with the child still
\* unfinished; and with a positive timeoutMs the call always ends.
C23_WaitEnds ==
  /\ [][(Waiting /\ ~Waiting')
        => /\ last'.op = "waitForSubFlow"
           /\ IF last'.raised = ""
              THEN /\ Wait.subFlowId \in DOMAIN store
                   /\ WaitDone(last', Wait, store[Wait.subFlowId],
                               IF last'.flowId \in DOMAIN store
                               THEN arrays[last'.flowId].subFlows ELSE <<>>,
                               IF last'.flowId \in DOMAIN store
                               THEN arrays'[last'.flowId].subFlows ELSE <<>>,
                               store'[Wait.subFlowId].ctx)
              ELSE IF last'.raised = "Timeout"
              THEN /\ Wait.timeoutMs > 0 /\ Wait.waited > Wait.timeoutMs
                   /\ Wait.subFlowId \in DOMAIN store
                   /\ store[Wait.subFlowId].status \notin {"completed", "failed"}
                   /\ StoreView' = StoreView
              ELSE /\ last'.raised = "NotFound"
                   /\ Wait.subFlowId \notin DOMAIN store]_vars
  /\ (Waiting /\ calls[3] > 0) ~> ~Waiting

\* A call with a timeout slept, then found its sub-flow completed and
\* wrote status, completedAt and result into the parent's entry.
C23_Witness ==
  /\ calls # <<>> /\ ~Waiting /\ Wait.timeoutMs > 0 /\ Wait.waited > 0
  /\ last.op = "waitForSubFlow" /\ last.raised = ""
  /\ last.flowId \in DOMAIN store
  /\ arrays[last.flowId].subFlows # <<>>
  /\ arrays[last.flowId].subFlows[1].subFlowId = Wait.subFlowId
  /\ arrays[last.flowId].subFlows[1].status = "completed"
  /\ arrays[last.flowId].subFlows[1].completedAt
  /\ arrays[last.flowId].subFlows[1].result = store[Wait.subFlowId].ctx


(***************************************************************************)
(* SpecStart: flows of three definitions, whose initial states are the     *)
(* atomic state draft, the parallel state par and the final state done,    *)
(* each with an onEntry hook that may raise.  last.arg of a start is       *)
(* whether the hooks it runs raise.                                        *)
(***************************************************************************)
Openers ==
  [pool |-> {IdNames[1]}, ids |-> {IdNames[1]},
   engines |-> Engines \cup {"receipt"},
   events |-> {"SUBMIT", "GO"}, keys |-> {}, marks |-> {},
   faults |-> TRUE, comps |-> 1, parents |-> {}]

\* The messages of the values a hook raises: new Error("HookError") and
\* new Error("") (or the thrown string "").
RaisedMessages == {<<"HookError">>, <<>>}

\* FlowEngine.start with onEntry hooks that raise a value of either message
StartRaising(c) ==
  \E engine \in c.engines, flowId \in c.ids, message \in RaisedMessages :
    /\ Becomes(Collect(startRaising(World, engine,
                  [flowId |-> flowId, key |-> NoKey, context |-> {},
                   hasContext |-> TRUE, ctxRef |-> 0, parentFlowId |-> NoId],
                  Uuid(World, c.pool), TRUE, message).w))
    /\ last' = WithArg(LastOf("start", flowId, NoKey,
                   startRaising(World, engine,
                     [flowId |-> flowId, key |-> NoKey, context |-> {},
                      hasContext |-> TRUE, ctxRef |-> 0, parentFlowId |-> NoId],
                     Uuid(World, c.pool), TRUE, message)), TRUE)
    /\ UNCHANGED <<middlewares, calls, snap>>

NextStart ==
  \/ Start(Openers)
  \/ StartRaising(Openers)
  \/ Execute(Openers)
  \/ Cancel(Openers)
  \/ RecordCompensation(Openers)
  \/ Delete(Openers)

SpecStart == Init /\ [][NextStart]_vars

\* start has created the flow last.ret and a hook it ran raised.
StartHookRaised(l) ==
  /\ l.op = "start" /\ l.raised = "" /\ ~l.noop /\ l.arg
  /\ l.log # <<>>

\* C24 as stated: if the onEntry hook of an initial state raises during
\* start, the flow that start persists and returns has status failed and
\* its error set, whatever the kind of the initial state.
C24_EntryFailureFails ==
  [][StartHookRaised(last')
     => /\ last'.ret \in DOMAIN store'
        /\ store'[last'.ret].status = "failed"
        /\ store'[last'.ret].error.set]_vars

\* C24: if the onEntry hook of an initial state raises during start, the
\* flow that start persists and returns has its error set; its status is
\* failed, unless the initial state is final (for a parallel initial state:
\* every region's initial state is final), and then it is completed.
C24_EntryFailureUnlessFinal ==
  [][StartHookRaised(last')
     => /\ last'.ret \in DOMAIN store'
        /\ store'[last'.ret].error.set
        /\ store'[last'.ret].status =
             IF isFlowComplete(store'[last'.ret].currentState)
             THEN "completed" ELSE "failed"]_vars

\* start on the definition whose initial state is final ran the onEntry
\* hook of done, which raised: the flow is stored completed, with an error.
C24_Witness ==
  /\ StartHookRaised(last)
  /\ last.ret \in DOMAIN store
  /\ store[last.ret].currentState = Single("done")
  /\ store[last.ret].status = "completed"
  /\ store[last.ret].error.set


(***************************************************************************)
(* SpecChain: the middleware chain of one engine, its middlewares told     *)
(* apart by name.  Every middleware runs its before part, awaits next()    *)
(* once and, when next() has returned, runs its after part.  calls holds   *)
(* what the last execute ran, in order: <<"before", m>>, <<"after", m>>    *)
(* and <<"core", "">> for executeCore.                                     *)
(***************************************************************************)
MaxChain == 2     \* middlewares registered at a time in SpecChain

MiddlewareNames == {"m1", "m2", "m3"}

Chained ==
  [pool |-> {IdNames[1]}, ids |-> {IdNames[1]}, engines |-> {"order"},
   events |-> {"SUBMIT", "APPROVE"}, keys |-> {}, marks |-> {},
   faults |-> FALSE, comps |-> 0, parents |-> {}]

dispatchAftersInOrder(mws, index, returned) ==
  [i \in 1..(Len(mws) - index) |-> <<"before", mws[index + i]>>]
  \o << <<"core", "">> >>
  \o (IF returned
      THEN [i \in 1..(Len(mws) - index) |-> <<"after", mws[index + i]>>]
      ELSE <<>>)

RECURSIVE dispatch(_, _, _)
\* The closure dispatch of executeWithMiddleware, called with the counter at
\* index: what runs until it settles.  returned is whether executeCore
\* returns; if it raises, every await next() raises and no after part runs.
dispatch(mws, index, returned) ==
  IF index >= Len(mws) THEN << <<"core", "">> >>
  ELSE << <<"before", mws[index + 1]>> >>
       \o dispatch(mws, index + 1, returned)
       \o (IF returned THEN << <<"after", mws[index + 1]>> >> ELSE <<>>)

\* What execute runs: the chain if there are middlewares (none of it when
\* executeWithMiddleware does not find the flow), else executeCore alone.
Ran(mws, found, returned) ==
  IF mws = <<>> THEN << <<"core", "">> >>
  ELSE IF ~found THEN <<>>
  ELSE dispatch(mws, 0, returned)

\* FlowEngine.use with a middleware not yet registered
UseNamed ==
  \E m \in MiddlewareNames :
    /\ Len(middlewares) < MaxChain
    /\ \A i \in 1..Len(middlewares) : middlewares[i] # m
    /\ middlewares' = Append(middlewares, m)
    /\ last' = LastOf("use", NoId, NoKey, Return(World))
    /\ UNCHANGED <<store, arrays, ctxs, keys, taken, calls, snap>>

\* The execute call has given r.
Executed(r, flowId, found) ==
  /\ Becomes(Noted(r, flowId, NoKey))
  /\ last' = LastOf("execute", flowId, NoKey, r)
  /\ calls' = Ran(middlewares, found, r.raised = "")
  /\ UNCHANGED <<middlewares, snap>>

ExecuteChain(c) ==
  \E flowId \in c.pool, event \in c.events :
    \E env \in CoreEnvs(World, flowId,
                        [event |-> event, key |-> NoKey, data |-> {},
                         targetRegion |-> NoRegion]) :
      Executed(execute(World, middlewares, flowId,
                       [event |-> event, key |-> NoKey, data |-> {},
                        targetRegion |-> NoRegion], env),
               flowId, exists(World, flowId))

NextChain ==
  \/ Start(Chained)
  \/ ExecuteChain(Chained)
  \/ Cancel(Chained)
  \/ UseNamed
  \/ ClearMiddleware

SpecChain == Init /\ [][NextChain]_vars

\* C25: with middlewares m1..mn registered in that order, each awaiting
\* next() once, an execute that returns has run the before part of m1, ...,
\* the before part of mn, the core step once, the after part of mn, ...,
\* the after part of m1, each middleware entered once; after
\* clearMiddleware (n = 0) no middleware is entered.
C25_Onion ==
  [][(last'.op = "execute" /\ last'.raised = "")
     => /\ Len(calls') = 2 * Len(middlewares) + 1
        /\ calls'[Len(middlewares) + 1] = <<"core", "">>
        /\ \A i \in 1..Len(middlewares) :
             /\ calls'[i] = <<"before", middlewares[i]>>
             /\ calls'[2 * Len(middlewares) + 2 - i] = <<"after", middlewares[i]>>]_vars

\* An execute through m2 and m1, registered in that order, has moved the
\* flow.
C25_Witness ==
  /\ last.op = "execute" /\ last.success
  /\ middlewares = <<"m2", "m1">>
  /\ calls = << <<"before", "m2">>, <<"before", "m1">>, <<"core", "">>,
                <<"after", "m1">>, <<"after", "m2">> >>


\* C26 (SpecStart): in every stored flow, status = failed implies that
\* error is set and error.message is a non-empty string, whichever path
\* made the flow fail and whatever value the failing hook raised.
C26_FailedHasMessage ==
  \A f \in DOMAIN store :
    store[f].status = "failed"
    => store[f].error.set /\ store[f].error.message # <<>>

\* start ran an onEntry hook that raised new Error(""): the flow is stored
\* failed and its error.message is the empty string.
C26_BlankMessage ==
  /\ StartHookRaised(last)
  /\ last.ret \in DOMAIN store
  /\ store[last.ret].status = "failed"
  /\ store[last.ret].error.set
  /\ store[last.ret].error.message = <<>>


(***************************************************************************)
(* SpecQuery: the queries of the engine.  The callers name the ids of      *)
(* FlowIds, start flows on the engines "order", "fanout" and "picker",     *)
(* send events and ask getPossibleTransitions; calls holds the flowId      *)
(* asked about and the array returned.                                     *)
(***************************************************************************)
Askers ==
  [pool |-> FlowIds, ids |-> FlowIds, engines |-> Engines \cup {"picker"},
   events |-> {"SUBMIT", "GO", "PICK"}, keys |-> {}, marks |-> {},
   faults |-> FALSE, comps |-> 0, parents |-> {}]

\* transitions.map(t => t.event)
EventsOf(transitions) ==
  [i \in 1..Len(transitions) |-> transitions[i].event]

RECURSIVE Unique(_)
\* Array.from of the Set the elements of s were added to in order: the
\* first occurrence of each.
Unique(s) ==
  IF s = <<>> THEN <<>>
  ELSE LET u == Unique(SubSeq(s, 1, Len(s) - 1))
       IN IF \E i \in 1..Len(u) : u[i] = s[Len(s)] THEN u
          ELSE Append(u, s[Len(s)])

RECURSIVE RegionEvents(_)
\* The events of the transitions of the states of names, in order.
RegionEvents(names) ==
  IF names = <<>> THEN <<>>
  ELSE EventsOf(getTransitions(Head(names))) \o RegionEvents(Tail(names))

\* FlowEngine.getPossibleTransitions: a Set of the events over the regions
\* of an array currentState, the mapped transitions of a string one.
getPossibleTransitions(w, flowId) ==
  IF ~exists(w, flowId) THEN [raised |-> "NotFound", events |-> <<>>]
  ELSE LET currentState == w.store[flowId].currentState
       IN [raised |-> "",
           events |-> IF currentState.list
                      THEN Unique(RegionEvents(currentState.names))
                      ELSE EventsOf(getTransitions(currentState.names[1]))]

\* r: what the query has given.
Answered(flowId, r) ==
  /\ calls' = <<flowId, r.events>>
  /\ last' = LastOf("getPossibleTransitions", flowId, NoKey,
                    IF r.raised = "" THEN Return(World)
                    ELSE Raise(World, r.raised))

GetPossibleTransitions(c) ==
  \E flowId \in c.pool :
    /\ Answered(flowId, getPossibleTransitions(World, flowId))
    /\ UNCHANGED <<store, arrays, ctxs, keys, taken, middlewares, snap>>

NextQuery ==
  \/ Start(Askers)
  \/ Execute(Askers)
  \/ GetPossibleTransitions(Askers)

SpecQuery == Init /\ [][NextQuery]_vars

\* The events of the transitions, own and global, of the current state(s)
\* of the stored flow f.
AvailableEvents(f) ==
  UNION {{t.event : t \in
            {getTransitions(n)[i] : i \in 1..Len(getTransitions(n))}} :
         n \in {store[f].currentState.names[i] :
                  i \in 1..Len(store[f].currentState.names)}}

\* C29: getPossibleTransitions(flowId) returns each available event name
\* exactly once, for a single-state flow as for a parallel one and also
\* when a state has several transitions on one event; the events returned
\* are those of the own and matching global transitions of the current
\* state(s).
C29_EachEventOnce ==
  (last.op = "getPossibleTransitions" /\ last.raised = "")
    => /\ \A i, j \in 1..Len(calls[2]) : calls[2][i] = calls[2][j] => i = j
       /\ {calls[2][i] : i \in 1..Len(calls[2])} = AvailableEvents(calls[1])

\* getPossibleTransitions has returned an event twice, for a flow whose
\* single current state has several transitions on that event.
C29_EventTwice ==
  /\ last.op = "getPossibleTransitions" /\ last.raised = ""
  /\ ~store[calls[1]].currentState.list
  /\ \E i, j \in 1..Len(calls[2]) : i # j /\ calls[2][i] = calls[2][j]

\* getPossibleTransitions has returned the events of a parallel flow whose
\* regions share an event, each once.
ParallelOnce ==
  /\ last.op = "getPossibleTransitions" /\ last.raised = ""
  /\ store[calls[1]].currentState.list
  /\ Len(RegionEvents(store[calls[1]].currentState.names)) > Len(calls[2])
  /\ \A i, j \in 1..Len(calls[2]) : calls[2][i] = calls[2][j] => i = j

(***************************************************************************)
(* SpecList: listFlows.  The callers name the ids of FlowIds, start flows  *)
(* and sub-flows of the first flow on the engines "order" and "fanout",    *)
(* send SUBMIT and list the flows by a filter; calls holds the filter and  *)
(* the flowIds of the flows listed.                                        *)
(***************************************************************************)
Listers ==
  [pool |-> FlowIds, ids |-> {IdNames[1], NoId}, engines |-> Engines,
   events |-> {"SUBMIT"}, keys |-> {}, marks |-> {}, faults |-> FALSE,
   comps |-> 0, parents |-> {IdNames[1]}]

\* A filter of list is <<status, flowDefinitionId, parentFlowId,
\* currentState>>; "" is a field left out (or the falsy ""), NoTarget a
\* currentState left out.  version is left out: the flows of the model
\* have one version.
NoTarget == <<FALSE, <<"none">>>>

Targets ==
  {NoTarget, <<FALSE, <<"draft">>>>, <<FALSE, <<"a1">>>>,
   <<TRUE, <<>>>>, <<TRUE, <<"draft", "processing">>>>,
   <<TRUE, <<"a1", "b1">>>>, <<TRUE, <<"a1", "gate">>>>}

\* The filters asked: one field each, and all the fields at once.
Filters ==
  {<<"", "", NoId, t>> : t \in Targets}
    \cup {<<"active", "", NoId, NoTarget>>, <<"", "order", NoId, NoTarget>>,
          <<"", "", IdNames[1], NoTarget>>,
          <<"active", "fanout", IdNames[1], <<TRUE, <<"a1", "b1">>>>>>}

\* Array.prototype.includes
includes(array, x) == \E i \in 1..Len(array) : array[i] = x

\* The currentState filter of list on the stored flow s, targetState being
\* an array (target[1]) or a string.
StateMatches(s, target) ==
  IF s.currentState.list
  THEN IF target[1]
       THEN \A i \in 1..Len(target[2]) :
              includes(s.currentState.names, target[2][i])
       ELSE includes(s.currentState.names, target[2][1])
  ELSE IF target[1]
       THEN includes(target[2], s.currentState.names[1])
       ELSE s.currentState.names[1] = target[2][1]

\* InMemoryStateStorage.list: the flowIds of the copies returned.
list(w, filter) ==
  {f \in DOMAIN w.store :
     /\ filter[1] # "" => w.store[f].status = filter[1]
     /\ filter[2] # "" => w.store[f].defId = filter[2]
     /\ filter[3] # NoId => w.store[f].parentFlowId = filter[3]
     /\ filter[4] # NoTarget => StateMatches(w.store[f], filter[4])}

\* FlowEngine.listFlows
ListFlows ==
  \E filter \in Filters :
    /\ calls' = <<filter, list(World, filter)>>
    /\ last' = LastOf("listFlows", NoId, NoKey, Return(World))
    /\ UNCHANGED <<store, arrays, ctxs, keys, taken, middlewares, snap>>

NextList ==
  \/ Start(Listers)
  \/ Execute(Listers)
  \/ StartSubFlow(Listers)
  \/ ListFlows

SpecList == Init /\ [][NextList]_vars

\* The current state, or the active region states, of the stored flow f.
CurrentStates(f) ==
  {store[f].currentState.names[i] : i \in 1..Len(store[f].currentState.names)}

\* The stored flow f satisfies the filter as the fields are specified.
Satisfies(f, filter) ==
  /\ filter[1] # "" => store[f].status = filter[1]
  /\ filter[2] # "" => store[f].defId = filter[2]
  /\ filter[3] # NoId => store[f].parentFlowId = filter[3]
  /\ filter[4] # NoTarget =>
        IF filter[4][1]
        THEN \A i \in 1..Len(filter[4][2]) :
               filter[4][2][i] \in CurrentStates(f)
        ELSE filter[4][2][1] \in CurrentStates(f)

\* C30: list(filter) returns exactly the stored flows that satisfy every
\* given filter field; a single requested state matches a flow iff it is
\* the flow's current state or one of its active region states, a list of
\* requested states iff every one of them is among the flow's current
\* state(s), for single-state flows as for parallel ones.
C30_ListExact ==
  last.op = "listFlows"
    => calls[2] = {f \in DOMAIN store : Satisfies(f, calls[1])}

\* list has returned a single-state flow for a list of requested states of
\* which one is not the flow's state.
C30_AnyOfListed ==
  /\ last.op = "listFlows"
  /\ calls[1][4] # NoTarget /\ calls[1][4][1]
  /\ \E f \in calls[2] :
       /\ ~store[f].currentState.list
       /\ \E i \in 1..Len(calls[1][4][2]) :
            calls[1][4][2][i] \notin CurrentStates(f)

\* list has left out a single-state flow for the empty list of requested
\* states.
EmptyListLeavesOut ==
  /\ last.op = "listFlows"
  /\ calls[1] = <<"", "", NoId, <<TRUE, <<>>>>>>
  /\ \E f \in DOMAIN store : f \notin calls[2]

\* list has returned, by every field of the filter, a parallel sub-flow.
ListedByAllFields ==
  /\ last.op = "listFlows"
  /\ calls[1][1] # "" /\ calls[1][3] # NoId
  /\ calls[1][4] # NoTarget /\ calls[1][4][1]
  /\ \E f \in calls[2] : store[f].currentState.list
  /\ \E f \in DOMAIN store : f \notin calls[2]


(***************************************************************************)
(* SpecShape: the shape of currentState.  The callers name one flow id,    *)
(* start flows on both engines and send the events that lead into the      *)
(* parallel state par: FORK from draft, NEST from the region state a1.     *)
(***************************************************************************)
Shapers ==
  [pool |-> {IdNames[1]}, ids |-> {IdNames[1]}, engines |-> Engines,
   events |-> {"SUBMIT", "APPROVE", "FORK", "GO", "NEST"}, keys |-> {},
   marks |-> {}, faults |-> FALSE, comps |-> 0, parents |-> {}]

NextShape ==
  \/ Start(Shapers)
  \/ Execute(Shapers)
  \/ Pause(Shapers)
  \/ Resume(Shapers)
  \/ Delete(Shapers)

SpecShape == Init /\ [][NextShape]_vars

\* C40: in every stored flow, currentState never is, and no region entry
\* ever is, the name of a parallel state node: a flow inside a parallel
\* state holds the list of that state's region states.
C40_NeverParallelName ==
  \A f \in DOMAIN store :
    \A i \in 1..Len(store[f].currentState.names) :
      ~isParallelState(States[store[f].currentState.names[i]])

\* An execute of FORK has succeeded on a single-state flow and the stored
\* currentState is the string par, the name of the parallel state.
C40_SingleHoldsParallel ==
  /\ last.op = "execute" /\ last.success
  /\ last.fromState = Single("draft")
  /\ last.flowId \in DOMAIN store
  /\ store[last.flowId].currentState = Single("par")
  /\ store[last.flowId].status = "active"

\* A region entry of a stored flow is the name of the parallel state.
RegionEntryParallel ==
  \E f \in DOMAIN store :
    /\ store[f].currentState.list
    /\ \E i \in 1..Len(store[f].currentState.names) :
         isParallelState(States[store[f].currentState.names[i]])


(***************************************************************************)
(* SpecBackoff: the waits of the retry loop of executeTransition.  A call  *)
(* meets a transition with a retry policy and a number of attempts that    *)
(* fail; calls holds the policy as written in the definition and that      *)
(* number, last the delays the loop has slept, in order.                   *)
(***************************************************************************)
Unspecified == -1              \* a number of transition.retry left out
NoBackoff == "undefined"       \* retry.backoff left out

MaxAttempts == 3               \* the largest retry.maxAttempts
DelayValues == {0, 1, 10}      \* the values of retry.delayMs

Policies ==
  [maxAttempts : (0..MaxAttempts) \cup {Unspecified},
   backoff : {"linear", "exponential", NoBackoff},
   delayMs : DelayValues \cup {Unspecified}]

\* x || dflt on a number or undefined: 0 and undefined are falsy.
OrElse(x, dflt) == IF x = Unspecified \/ x = 0 THEN dflt ELSE x

\* retryConfig.maxAttempts || 0, retryConfig.backoff || 'linear',
\* retryConfig.delayMs || 1000
RetryConfig(retry) ==
  [maxAttempts |-> OrElse(retry.maxAttempts, 0),
   backoff |-> IF retry.backoff = NoBackoff THEN "linear"
               ELSE retry.backoff,
   delayMs |-> OrElse(retry.delayMs, 1000)]

\* The delay slept after the failed attempt number `attempt` (0-based).
Delay(config, attempt) ==
  IF config.backoff = "exponential"
  THEN config.delayMs * 2^attempt
  ELSE config.delayMs * (attempt + 1)

\* The delays of a call whose first `failed` attempts fail: one after every
\* failed attempt that is not the last one allowed.
Delays(retry, failed) ==
  LET config == RetryConfig(retry)
      slept == IF failed <= config.maxAttempts THEN failed
               ELSE config.maxAttempts
  IN [i \in 1..slept |-> Delay(config, i - 1)]

Retry ==
  \E retry \in Policies :
    \E failed \in 0..(RetryConfig(retry).maxAttempts + 1) :
      /\ calls' = <<retry.maxAttempts, retry.backoff, retry.delayMs, failed>>
      /\ last' = [op |-> "retry", delays |-> Delays(retry, failed)]
      /\ UNCHANGED <<store, arrays, ctxs, keys, taken, middlewares, snap>>

NextBackoff == Retry

SpecBackoff == Init /\ [][NextBackoff]_vars

\* The delay the policy asks for between the failed attempt i (0-based)
\* and the next: delayMs and backoff as written, 1000 and linear when left
\* out.
AskedDelay(backoff, delayMs, i) ==
  LET d == IF delayMs = Unspecified THEN 1000 ELSE delayMs
  IN IF backoff = "exponential" THEN d * 2^i ELSE d * (i + 1)

\* C33: for every retry policy with maxAttempts >= 1 and delayMs >= 0,
\* delayMs = 0 included, the wait between the failed attempt i (0-based)
\* and attempt i + 1 is delayMs * (i + 1) with linear backoff and
\* delayMs * 2^i with exponential backoff; delayMs is 1000 and backoff is
\* linear only when they are left out; no wait follows the last attempt.
C33_Delays ==
  (last.op = "retry" /\ calls[1] # Unspecified /\ calls[1] >= 1)
  => /\ Len(last.delays) = IF calls[4] <= calls[1] THEN calls[4] ELSE calls[1]
     /\ \A i \in 1..Len(last.delays) :
          last.delays[i] = AskedDelay(calls[2], calls[3], i - 1)

\* A policy with delayMs = 0 and two failed attempts has slept 1000 ms and
\* 2000 ms.
C33_ZeroDelaySleeps ==
  /\ last.op = "retry"
  /\ calls = <<2, "linear", 0, 2>>
  /\ last.delays = <<1000, 2000>>

\* A policy with delayMs = 10 and exponential backoff whose three allowed
\* retries all fail has slept 10, 20 and 40 ms, and nothing after the last
\* attempt.
NonZeroDelays ==
  /\ last.op = "retry"
  /\ calls = <<3, "exponential", 10, 4>>
  /\ last.delays = <<10, 20, 40>>


(***************************************************************************)
(* SpecJoin: the transitions declared for the parallel state itself, JOIN  *)
(* on the node par and MERGE in config.transitions with from = par.  The   *)
(* callers start flows of the engine "fanout", advance their regions with  *)
(* GO and send JOIN and MERGE, to all regions or to one; calls holds the   *)
(* last execute call as in SpecRegions.                                    *)
(***************************************************************************)
Joiners ==
  [pool |-> {IdNames[1]}, ids |-> {IdNames[1]}, engines |-> {"fanout"},
   events |-> {"GO", "JOIN", "MERGE"}, keys |-> {}, marks |-> {},
   faults |-> FALSE, comps |-> 1, parents |-> {}]

NextJoin ==
  \/ Start(Joiners)
  \/ ExecuteRegions(Joiners)
  \/ RecordCompensation(Joiners)
  \/ Delete(Joiners)

SpecJoin == Init /\ [][NextJoin]_vars

\* The events of the transitions declared for the parallel state par.
ParallelEvents ==
  {getTransitions("par")[i].event : i \in 1..Len(getTransitions("par"))}

MergeRefused ==
  /\ last.op = "execute" /\ last.raised = "" /\ ~last.success
  /\ calls # <<>> /\ RegionCall.event = "MERGE"
  /\ RegionCall.targetRegion = NoRegion
  /\ last.error = <<"No region accepted the event">>
  /\ store[last.flowId].status = "failed"


(***************************************************************************)
(* SpecStarts: MaxCalls calls of start({idempotencyKey: k1}) on the engine *)
(* "order" in flight at once, on an empty store.  A call runs from one     *)
(* await to the next in one step, as in SpecOverlap; generateUUID gives    *)
(* call i the id IdNames[i].  calls[i].hook is whether the onEntry hook of *)
(* the call raises.                                                        *)
(***************************************************************************)
NewStart ==
  [pc |-> "idle", existing |-> NoId, found |-> FALSE, hook |-> FALSE,
   raised |-> "", ret |-> NoId]

InitStarts ==
  /\ store = <<>>
  /\ arrays = <<>>
  /\ ctxs = <<>>
  /\ keys = <<>>
  /\ taken = <<>>
  /\ middlewares = <<>>
  /\ last = [op |-> "init"]
  /\ calls = [i \in 1..MaxCalls |-> NewStart]
  /\ snap = NoSnap

\* start up to its first await: the key is looked up.
StartReadKey(i) ==
  /\ calls[i].pc = "idle"
  /\ calls' = [calls EXCEPT ![i] =
       [@ EXCEPT !.pc = "checked",
                 !.existing = getFlowIdByIdempotencyKey(World, TheKey)]]
  /\ UNCHANGED <<store, arrays, ctxs, keys, taken, middlewares, last, snap>>

\* start after the lookup: get(existingFlowId) if the key was bound,
\* otherwise exists(flowId) for the generated id.
StartLook(i) ==
  /\ calls[i].pc = "checked"
  /\ calls' = [calls EXCEPT ![i] =
       IF calls[i].existing # NoId
       THEN [@ EXCEPT !.pc = "got", !.found = exists(World, calls[i].existing)]
       ELSE [@ EXCEPT !.pc = "probed", !.found = exists(World, IdNames[i])]]
  /\ UNCHANGED <<store, arrays, ctxs, keys, taken, middlewares, last, snap>>

\* start after get(existingFlowId): the existing flow is returned, or, get
\* having given null, exists(flowId) is called for the generated id.
StartExisting(i) ==
  /\ calls[i].pc = "got"
  /\ calls' = [calls EXCEPT ![i] =
       IF calls[i].found
       THEN [@ EXCEPT !.pc = "done", !.ret = calls[i].existing]
       ELSE [@ EXCEPT !.pc = "probed", !.found = exists(World, IdNames[i])]]
  /\ UNCHANGED <<store, arrays, ctxs, keys, taken, middlewares, last, snap>>

\* start after exists(flowId): it raises, or saves the key.
StartBindKey(i) ==
  /\ calls[i].pc = "probed"
  /\ IF calls[i].found
     THEN /\ calls' = [calls EXCEPT ![i] =
                         [@ EXCEPT !.pc = "done", !.raised = "Duplicate"]]
          /\ UNCHANGED keys
     ELSE /\ keys' = saveIdempotencyKey(World, TheKey, IdNames[i], "start").keys
          /\ calls' = [calls EXCEPT ![i] = [@ EXCEPT !.pc = "bound"]]
  /\ UNCHANGED <<store, arrays, ctxs, taken, middlewares, last, snap>>

\* start after saveIdempotencyKey: the flow state is built and the onEntry
\* hook of the initial state called, which returns or raises in its time.
StartEnter(i) ==
  /\ calls[i].pc = "bound"
  /\ \E raises \in BOOLEAN :
       calls' = [calls EXCEPT ![i] =
                   [@ EXCEPT !.pc = "entered", !.hook = raises]]
  /\ UNCHANGED <<store, arrays, ctxs, keys, taken, middlewares, last, snap>>

\* start after the hook: the flow state is saved and returned.
StartSave(i) ==
  /\ calls[i].pc = "entered"
  /\ Becomes([start([World EXCEPT !.store =
                        [f \in DOMAIN store \ {IdNames[i]} |-> store[f]]],
                     "order",
                     [flowId |-> IdNames[i], key |-> NoKey, context |-> {},
                      hasContext |-> FALSE, ctxRef |-> 0,
                      parentFlowId |-> NoId],
                     NoId, calls[i].hook).w EXCEPT !.keys = keys])
  /\ calls' = [calls EXCEPT ![i] =
                 [@ EXCEPT !.pc = "done", !.ret = IdNames[i]]]
  /\ UNCHANGED <<middlewares, last, snap>>

NextStarts ==
  \E i \in 1..MaxCalls :
    \/ StartReadKey(i)
    \/ StartLook(i)
    \/ StartExisting(i)
    \/ StartBindKey(i)
    \/ StartEnter(i)
    \/ StartSave(i)

SpecStarts == InitStarts /\ [][NextStarts]_vars

\* C37: when start calls with the same idempotency key overlap, also while
\* an initial onEntry hook is still running, at most one flow is created
\* in the store and all the calls return the same flowId.
C37_OneFlowPerKey ==
  /\ Cardinality(DOMAIN store) <= 1
  /\ \A i, j \in 1..MaxCalls :
       (/\ calls[i].pc = "done" /\ calls[i].raised = ""
        /\ calls[j].pc = "done" /\ calls[j].raised = "")
       => calls[i].ret = calls[j].ret

\* Two calls have returned, each the flow it created: the second looked the
\* key up while the hook of the first was running, found it bound to a
\* flow that get did not find, and bound it again.
C37_TwoFlows ==
  /\ calls[1].pc = "done" /\ calls[2].pc = "done"
  /\ calls[1].ret = IdNames[1] /\ calls[2].ret = IdNames[2]
  /\ calls[2].existing = IdNames[1]
  /\ {IdNames[1], IdNames[2]} \subseteq DOMAIN store
  /\ keys[TheKey].flowId = IdNames[2]


(***************************************************************************)
(* SpecRollback: the calls of SpecMw's engine without middleware, one at a *)
(* time, with the compensation procedure run step by step: the call saves  *)
(* the flow as compensating, awaits the recorded actions one after the     *)
(* other, and saves the flow as failed when it returns.  calls holds the   *)
(* call in flight: the actions it has yet to await (left) and what it     *)
(* gives when it returns (r).                                              *)
(***************************************************************************)
Rollers ==
  [pool |-> {IdNames[1]}, ids |-> {IdNames[1]}, engines |-> {"order"},
   events |-> {"SUBMIT", "APPROVE", "NOPE"}, keys |-> {}, marks |-> {},
   faults |-> TRUE, comps |-> MaxComps, parents |-> {}]

NoCall ==
  [pc |-> "idle", op |-> "", flowId |-> NoId, arg |-> FALSE, left |-> <<>>,
   r |-> <<>>]

InFlight == calls.pc # "idle"

InitRollback ==
  /\ store = <<>>
  /\ arrays = <<>>
  /\ ctxs = <<>>
  /\ keys = <<>>
  /\ taken = <<>>
  /\ middlewares = <<>>
  /\ last = LastOf("init", NoId, NoKey, Return(World))
  /\ calls = NoCall
  /\ snap = NoSnap

\* A call that gives r enters compensate with recorded actions: the flow
\* is saved as compensating, and the first action is awaited.
Compensating(op, flowId, arg, r, raisers) ==
  /\ r.raised = "" /\ r.compensated
  /\ Becomes(compensate(World, store[flowId], r.error, raisers).w)
  /\ calls' = [pc |-> "compensating", op |-> op, flowId |-> flowId,
               arg |-> arg, left |-> r.comps, r |-> r]
  /\ UNCHANGED <<middlewares, last, snap>>

\* executeCore up to the first await of compensate's loop.
ExecuteBegin(c) ==
  \E flowId \in c.pool, event \in c.events :
    /\ ~InFlight
    /\ exists(World, flowId)
    /\ \E env \in CoreEnvs(World, flowId,
                            [event |-> event, key |-> NoKey, data |-> {},
                             targetRegion |-> NoRegion]) :
         Compensating("execute", flowId, FALSE,
                      execute(World, <<>>, flowId,
                              [event |-> event, key |-> NoKey, data |-> {},
                               targetRegion |-> NoRegion], env),
                      env.cr)

\* cancel(flowId, true) up to the first await of compensate's loop.
CancelBegin(c) ==
  \E flowId \in c.pool :
    /\ ~InFlight
    /\ exists(World, flowId)
    /\ \E raisers \in SUBSET ActionsOn(World, flowId) :
         Compensating("cancel", flowId, TRUE,
                      cancel(World, flowId, TRUE, raisers), raisers)

\* await comp.action(flowState.context): the action returns, or raises and
\* is caught in the loop.
CompensationStep ==
  /\ InFlight
  /\ calls.left # <<>>
  /\ calls' = [calls EXCEPT !.left = Tail(@)]
  /\ UNCHANGED <<store, arrays, ctxs, keys, taken, middlewares, last, snap>>

\* The loop is over: compensate marks the snapshot failed and returns, and
\* its caller saves the snapshot and returns.
CompensationEnd ==
  /\ InFlight
  /\ calls.left = <<>>
  /\ Becomes(calls.r.w)
  /\ last' = WithArg(LastOf(calls.op, calls.flowId, NoKey, calls.r), calls.arg)
  /\ calls' = NoCall
  /\ UNCHANGED <<middlewares, snap>>

\* The calls that do not enter compensate's loop return in one step.
NextRollback ==
  \/ ~InFlight /\ Start(Rollers)
  \/ ~InFlight /\ RecordCompensation(Rollers)
  \/ ~InFlight /\ Execute(Rollers) /\ ~last'.compensated
  \/ ~InFlight /\ Cancel(Rollers) /\ ~last'.compensated
  \/ ~InFlight /\ Delete(Rollers)
  \/ ExecuteBegin(Rollers)
  \/ CancelBegin(Rollers)
  \/ CompensationStep
  \/ CompensationEnd

\* Every awaited compensation action ends, and so does the save after it.
SpecRollback ==
  /\ InitRollback
  /\ [][NextRollback]_vars
  /\ WF_vars(CompensationStep)
  /\ WF_vars(CompensationEnd)

\* C39: the status compensating is transient.  Every flow whose stored
\* status becomes compensating has the stored status failed later on, and
\* whenever no call is in flight (every execute and cancel has returned)
\* no stored flow has the status compensating; the compensation actions
\* are taken to end.
C39_CompensatingIsTransient ==
  /\ [](~InFlight => \A f \in DOMAIN store : store[f].status # "compensating")
  /\ \A f \in FlowIds :
       (f \in DOMAIN store /\ store[f].status = "compensating")
         ~> (f \in DOMAIN store /\ store[f].status = "failed")

\* An execute that failed on a flow with two recorded actions has returned
\* after its compensation: the flow is stored as failed.
C39_Witness ==
  /\ ~InFlight
  /\ last.op = "execute" /\ last.compensated /\ Len(last.comps) = 2
  /\ last.flowId \in DOMAIN store
  /\ store[last.flowId].status = "failed"
  /\ Compensated(World, last.flowId)

\* A call is awaiting a compensation action: the flow is stored as
\* compensating.
MidCompensation ==
  ~(/\ InFlight /\ Len(calls.left) = 1
    /\ store[calls.flowId].status = "compensating")

====
